---- MODULE Spec2Model ----
(***************************************************************************)
(* Attestation-threshold filtering of the Shinzo app SDK                   *)
(* (package attestation): the query text utilities, the per-document      *)
(* count of distinct CIDs, the threshold filter and the single-result     *)
(* search built on it.                                                     *)
(*                                                                         *)
(* A GraphQL query is a sequence of one-character strings, an error is    *)
(* the chain of its messages from the outermost wrapper to the innermost  *)
(* cause (<<>> is nil), a []T result is a record with its nil-ness and    *)
(* its items.                                                              *)
(***************************************************************************)
EXTENDS Integers, Sequences, FiniteSets, TLC

\* ------------------------------------------------------------------ bounds

\* Attestation records the store holds at most (filter specification).
MaxRecords == 2
\* Length of the response list handed to the filter at most.
MaxResp == 2
\* Documents of the User collection at most (search specification).
MaxDocs == 2
\* Attestation records the store holds at most (search specification).
SearchMaxRecords == 2

\* ------------------------------------------------------------- query texts

QueryUser == <<"q", "u", "e", "r", "y", " ", "{", " ", "U", "s", "e", "r", " ", "{", " ", "_", "d", "o", "c", "I", "D", " ", "n", "a", "m", "e", " ", "}", " ", "}">>
QueryInvalid == <<"i", "n", "v", "a", "l", "i", "d", " ", "q", "u", "e", "r", "y">>
QueryOther == <<"q", "u", "e", "r", "y", " ", "{", " ", "B", "l", "o", "c", "k", " ", "{", " ", "_", "d", "o", "c", "I", "D", " ", "}", " ", "}">>

QueryLimit1 == <<"q", "u", "e", "r", "y", " ", "{", " ", "U", "s", "e", "r", "(", "l", "i", "m", "i", "t", ":", " ", "1", ")", " ", "{", " ", "_", "d", "o", "c", "I", "D", " ", "n", "a", "m", "e", " ", "}", " ", "}">>
QueryLimit2 == <<"q", "u", "e", "r", "y", " ", "{", " ", "U", "s", "e", "r", "(", "l", "i", "m", "i", "t", ":", " ", "2", ")", " ", "{", " ", "_", "d", "o", "c", "I", "D", " ", "n", "a", "m", "e", " ", "}", " ", "}">>

KwQuery == <<"q", "u", "e", "r", "y", " ">>
KwMutation == <<"m", "u", "t", "a", "t", "i", "o", "n", " ">>
KwSubscription == <<"s", "u", "b", "s", "c", "r", "i", "p", "t", "i", "o", "n", " ">>
KwLimit == <<"l", "i", "m", "i", "t">>

LowerLetters == <<"a", "b", "c", "d", "e", "f", "g", "h", "i", "j", "k", "l", "m", "n", "o", "p", "q", "r", "s", "t", "u", "v", "w", "x", "y", "z">>
UpperLetters == <<"A", "B", "C", "D", "E", "F", "G", "H", "I", "J", "K", "L", "M", "N", "O", "P", "Q", "R", "S", "T", "U", "V", "W", "X", "Y", "Z">>
Digits == {"0", "1", "2", "3", "4", "5", "6", "7", "8", "9"}

Range(s) == {s[i] : i \in DOMAIN s}

\* strings.ToLower, one character
LowerChar(c) ==
    IF \E k \in DOMAIN UpperLetters : UpperLetters[k] = c
    THEN LowerLetters[CHOOSE k \in DOMAIN UpperLetters : UpperLetters[k] = c]
    ELSE c

ToLower(s) == [i \in DOMAIN s |-> LowerChar(s[i])]

\* the characters strings.TrimSpace strips
IsSpace(c) == c \in {" ", "\t", "\n", "\r", "\f"}

TrimSpace(s) ==
    IF \A i \in DOMAIN s : IsSpace(s[i]) THEN <<>>
    ELSE LET first == CHOOSE i \in DOMAIN s : ~IsSpace(s[i]) /\ \A j \in 1..(i-1) : IsSpace(s[j])
             last  == CHOOSE i \in DOMAIN s : ~IsSpace(s[i]) /\ \A j \in (i+1)..Len(s) : IsSpace(s[j])
         IN SubSeq(s, first, last)

HasPrefix(s, prefix) ==
    Len(s) >= Len(prefix) /\ SubSeq(s, 1, Len(prefix)) = prefix

\* strings.Index / strings.IndexRune for one character, 0-based, -1 if absent
IndexRune(s, c) ==
    IF \E i \in DOMAIN s : s[i] = c
    THEN (CHOOSE i \in DOMAIN s : s[i] = c /\ \A j \in 1..(i-1) : s[j] # c) - 1
    ELSE -1

\* s[n:] for a 0-based byte offset n
From(s, n) == SubSeq(s, n + 1, Len(s))

\* s[:n]
Upto(s, n) == SubSeq(s, 1, n)

Contains(s, c) == \E i \in DOMAIN s : s[i] = c

IsIdentStart(r) == r \in Range(LowerLetters) \cup Range(UpperLetters) \cup {"_"}
IsIdentChar(r) == IsIdentStart(r) \/ r \in Digits

\* the offset of the opening brace: after the operation keyword if the query
\* starts with one, else the first brace of the query
openBraceIdx(query) ==
    LET queryLower == ToLower(query)
        after(n) == LET at == IndexRune(From(query, n), "{")
                    IN IF at # -1 THEN at + n ELSE -1
    IN IF HasPrefix(queryLower, KwQuery) THEN after(6)
       ELSE IF HasPrefix(queryLower, KwMutation) THEN after(9)
       ELSE IF HasPrefix(queryLower, KwSubscription) THEN after(12)
       ELSE IndexRune(query, "{")

\* the loop over the characters after the opening brace; i is 1-based
RECURSIVE scanCollectionName(_, _, _, _, _)
scanCollectionName(content, i, collectionName, inIdentifier, afterColon) ==
    IF i > Len(content) THEN collectionName
    ELSE LET r == content[i] IN
         IF r = ":"
         THEN scanCollectionName(content, i + 1, <<>>, FALSE, TRUE)
         ELSE IF ~inIdentifier
         THEN IF r \in {" ", "\t", "\n", "\r"}
              THEN scanCollectionName(content, i + 1, collectionName, FALSE, afterColon)
              ELSE IF IsIdentStart(r)
              THEN IF afterColon \/ ~Contains(Upto(content, IndexRune(content, r)), ":")
                   THEN scanCollectionName(content, i + 1, Append(collectionName, r), TRUE, afterColon)
                   ELSE scanCollectionName(content, i + 1, collectionName, FALSE, afterColon)
              ELSE IF r = "{"
              THEN collectionName
              ELSE scanCollectionName(content, i + 1, collectionName, FALSE, afterColon)
         ELSE IF IsIdentChar(r)
              THEN scanCollectionName(content, i + 1, Append(collectionName, r), TRUE, afterColon)
              ELSE collectionName

\* extractCollectionNameFromQuery without the check for a missing brace: the
\* scan then starts at the first character of the query
extractCollectionNameFromQuery_NoBraceCheck(query0) ==
    IF query0 = <<>>
    THEN [name |-> <<>>, err |-> <<"query string is empty">>]
    ELSE LET query == TrimSpace(query0)
             brace == openBraceIdx(query)
             content == TrimSpace(From(query, brace + 1))
             result  == TrimSpace(scanCollectionName(content, 1, <<>>, FALSE, FALSE))
         IN IF result = <<>>
            THEN [name |-> <<>>, err |-> <<"could not extract collection name from query">>]
            ELSE [name |-> result, err |-> <<>>]

extractCollectionNameFromQuery(query0) ==
    IF query0 = <<>>
    THEN [name |-> <<>>, err |-> <<"query string is empty">>]
    ELSE LET query == TrimSpace(query0)
             brace == openBraceIdx(query)
         IN IF brace = -1
            THEN [name |-> <<>>, err |-> <<"no opening brace found in query">>]
            ELSE LET content == TrimSpace(From(query, brace + 1))
                     result  == TrimSpace(scanCollectionName(content, 1, <<>>, FALSE, FALSE))
                 IN IF result = <<>>
                    THEN [name |-> <<>>, err |-> <<"could not extract collection name from query">>]
                    ELSE [name |-> result, err |-> <<>>]

\* ------------------------------------------------- the limit of a query text

\* limitColonAt that wants the colon right after the key
limitColonAt_Adjacent(query, i) ==
    IF /\ i > 1
       /\ i + Len(KwLimit) <= Len(query)
       /\ ToLower(SubSeq(query, i, i + Len(KwLimit) - 1)) = KwLimit
       /\ (query[i-1] \in {"(", ","} \/ IsSpace(query[i-1]))
       /\ query[i + Len(KwLimit)] = ":"
    THEN i + Len(KwLimit)
    ELSE 0

\* the offset (1-based) of the colon of a limit key that starts at i: the
\* word limit in any letter case, preceded by "(", "," or whitespace and
\* followed, after optional whitespace, by ":"; 0 if no limit key starts at i
limitColonAt(query, i) ==
    IF /\ i > 1
       /\ i + Len(KwLimit) - 1 <= Len(query)
       /\ ToLower(SubSeq(query, i, i + Len(KwLimit) - 1)) = KwLimit
       /\ (query[i-1] \in {"(", ","} \/ IsSpace(query[i-1]))
       /\ \E j \in (i + Len(KwLimit))..Len(query) :
             query[j] = ":" /\ \A k \in (i + Len(KwLimit))..(j-1) : IsSpace(query[k])
    THEN CHOOSE j \in (i + Len(KwLimit))..Len(query) :
             query[j] = ":" /\ \A k \in (i + Len(KwLimit))..(j-1) : IsSpace(query[k])
    ELSE 0

\* hasLimitParameter that knows the key in lower case only
hasLimitParameter_CaseSensitive(query) ==
    \E i \in DOMAIN query :
        /\ limitColonAt(query, i) # 0
        /\ SubSeq(query, i, i + Len(KwLimit) - 1) = KwLimit

hasLimitParameter(query) == \E i \in DOMAIN query : limitColonAt(query, i) # 0

DigitValue(c) == CHOOSE v \in 0..9 : <<"0", "1", "2", "3", "4", "5", "6", "7", "8", "9">>[v + 1] = c

\* the integer a run of decimal digits denotes
RECURSIVE parseDigits(_)
parseDigits(digits) ==
    IF digits = <<>> THEN 0
    ELSE 10 * parseDigits(SubSeq(digits, 1, Len(digits) - 1)) + DigitValue(digits[Len(digits)])

\* the integer literal right after the first limit key, if there is one
extractLimitValue(query) ==
    IF ~hasLimitParameter(query) THEN [value |-> 0, found |-> FALSE]
    ELSE LET keys == {k \in DOMAIN query : limitColonAt(query, k) # 0}
             i == CHOOSE k \in keys : \A j \in keys : k <= j
             rest == TrimSpace(From(query, limitColonAt(query, i)))
             n == IF \A k \in DOMAIN rest : rest[k] \in Digits THEN Len(rest)
                  ELSE (CHOOSE k \in DOMAIN rest :
                            rest[k] \notin Digits /\ \A j \in 1..(k-1) : rest[j] \in Digits) - 1
         IN IF n = 0 THEN [value |-> 0, found |-> FALSE]
            ELSE [value |-> parseDigits(Upto(rest, n)), found |-> TRUE]

\* the queries the callers of the model pass
FilterQueries == {QueryUser, QueryInvalid, QueryOther}
SearchQueries == {QueryUser, QueryLimit1, QueryLimit2, QueryInvalid}

\* The text functions are evaluated once for each of these queries and looked
\* up afterwards: the tables hold the functions' own values.
viewNameTable == [q \in FilterQueries \cup SearchQueries |-> extractCollectionNameFromQuery(q)]
hasLimitTable == [q \in SearchQueries |-> hasLimitParameter(q)]
limitValueTable == [q \in SearchQueries |-> extractLimitValue(q)]

viewNameOf(q) ==
    IF q \in DOMAIN viewNameTable THEN viewNameTable[q] ELSE extractCollectionNameFromQuery(q)
hasLimitOf(q) ==
    IF q \in DOMAIN hasLimitTable THEN hasLimitTable[q] ELSE hasLimitParameter(q)
limitValueOf(q) ==
    IF q \in DOMAIN limitValueTable THEN limitValueTable[q] ELSE extractLimitValue(q)

\* ---------------------------------------------------------------- the store

\* Documents of the caller's type T (TestDocument: DocID and Name). Two of them
\* carry the same DocID.
Doc(id, name) == [DocID |-> id, Name |-> name]
DocPool == {Doc("d1", "a"), Doc("d2", "b"), Doc("d1", "c")}
DocIDs == {"d1", "d2"}
\* the zero value of T
ZeroDoc == Doc("", "")

\* CIDs lists of the attestation records written to the store
CidLists == {<<>>, <<"x", "x">>, <<"x", "y">>, <<"x", "z">>}

\* the view whose AttestationRecord_<view> collection the store holds
UserView == <<"U", "s", "e", "r">>
AttestationViews == {UserView}

\* QueryAttestationRecords of a query built without its _in filter
QueryAttestationRecords_NoIdFilter(stored, viewName, ids, storeOk) ==
    IF ~storeOk THEN [rows |-> <<>>, err |-> <<"store failure">>]
    ELSE IF viewName \notin AttestationViews
    THEN [rows |-> <<>>, err |-> <<"Cannot query field AttestationRecord_">>]
    ELSE [rows |-> stored, err |-> <<>>]

\* defra.QueryArray[AttestationRecord] of the query the filter builds:
\* the rows of AttestationRecord_<viewName> whose attested_doc is _in ids, in
\* the store's order; the store fails for a collection it does not hold and
\* whenever storeOk is FALSE (a storage or network failure)
QueryAttestationRecords(stored, viewName, ids, storeOk) ==
    IF ~storeOk THEN [rows |-> <<>>, err |-> <<"store failure">>]
    ELSE IF viewName \notin AttestationViews
    THEN [rows |-> <<>>, err |-> <<"Cannot query field AttestationRecord_">>]
    ELSE [rows |-> SelectSeq(stored, LAMBDA rec : rec.attested_doc \in ids), err |-> <<>>]

\* ------------------------------------------------------ the threshold filter

\* getDocID that gives the empty id for a struct without the field
getDocID_Lenient(item) ==
    [id |-> IF "DocID" \in DOMAIN item THEN item.DocID ELSE "", err |-> <<>>]

\* getDocID: the DocID field of T by reflection
getDocID(item) ==
    IF "DocID" \in DOMAIN item
    THEN [id |-> item.DocID, err |-> <<>>]
    ELSE [id |-> "", err |-> <<"struct does not have a DocID field">>]

\* the map documentsById after the loop over response: a later element
\* overwrites an earlier one with the same DocID
documentsById(response) ==
    [id \in {getDocID(response[i]).id : i \in DOMAIN response} |->
        response[CHOOSE i \in DOMAIN response :
                    /\ getDocID(response[i]).id = id
                    /\ \A j \in DOMAIN response : getDocID(response[j]).id = id => j <= i]]

\* for _, cid := range record.CIDs { set[cid] = struct{}{} }
RECURSIVE addCIDs(_, _)
addCIDs(set, cids) ==
    IF cids = <<>> THEN set ELSE addCIDs(set \cup {Head(cids)}, Tail(cids))

\* addRecord with the set of the document made anew for every record
addRecord_Overwrite(sets, record) ==
    LET docID == record.attested_doc
    IN [d \in DOMAIN sets \cup {docID} |->
            IF d = docID THEN addCIDs({}, record.CIDs) ELSE sets[d]]

\* one iteration of the loop over attestationRecords
addRecord(sets, record) ==
    LET docID == record.attested_doc
        old   == IF docID \in DOMAIN sets THEN sets[docID] ELSE {}
    IN [d \in DOMAIN sets \cup {docID} |->
            IF d = docID THEN addCIDs(old, record.CIDs) ELSE sets[d]]

\* docIDToCIDSet after the loop over attestationRecords
RECURSIVE docIDToCIDSet(_)
docIDToCIDSet(attestationRecords) ==
    IF attestationRecords = <<>> THEN <<>>
    ELSE addRecord(docIDToCIDSet(SubSeq(attestationRecords, 1, Len(attestationRecords) - 1)),
                   attestationRecords[Len(attestationRecords)])

\* meetsThreshold that asks for exactly the threshold
meetsThreshold_Exact(CIDs, minimumAttestationThreshold) ==
    Cardinality(CIDs) = minimumAttestationThreshold

\* meetsThreshold with a strict comparison
meetsThreshold_Strict(CIDs, minimumAttestationThreshold) ==
    Cardinality(CIDs) > minimumAttestationThreshold

\* attestationCount >= minimumAttestationThreshold
meetsThreshold(CIDs, minimumAttestationThreshold) ==
    Cardinality(CIDs) >= minimumAttestationThreshold

\* the orders in which a Go map of the keys S may be ranged over
Orderings(S) ==
    {o \in [1..Cardinality(S) -> S] : \A i, j \in 1..Cardinality(S) : o[i] = o[j] => i = j}

\* the value a Go map read gives: the zero value for a missing key
MapGet(byId, docId) == IF docId \in DOMAIN byId THEN byId[docId] ELSE ZeroDoc

\* newResponse, for each order of the range over docIDToCIDSet
newResponses(byId, sets, minimumAttestationThreshold) ==
    LET keep == {d \in DOMAIN sets : meetsThreshold(sets[d], minimumAttestationThreshold)}
    IN {[i \in DOMAIN o |-> MapGet(byId, o[i])] : o \in Orderings(keep)}

\* thresholdIsZero without the fast path
thresholdIsZero_Never(minimumAttestationThreshold) == FALSE

\* minimumAttestationThreshold == 0
thresholdIsZero(minimumAttestationThreshold) == minimumAttestationThreshold = 0

\* attestationCount := uint(len(CIDs)), for every key of docIDToCIDSet
attestationCounts(sets) == [d \in DOMAIN sets |-> Cardinality(sets[d])]

\* What a call returned (items, isNil, err), the steps it took and the
\* attestation counts it computed (<<>> when it did not get that far).
Outcome(items, isNil, err, steps, counts) ==
    [items |-> items, isNil |-> isNil, err |-> err, steps |-> steps, counts |-> counts]

\* filterMinimumIndexerAttestations that takes a failed attestation query for
\* an empty answer
filterMinimumIndexerAttestations_SwallowsQueryError(stored, response, minimumAttestationThreshold, queryUsed, storeOk) ==
    IF thresholdIsZero(minimumAttestationThreshold)
    THEN {Outcome(response, FALSE, <<>>, <<>>, <<>>)}
    ELSE LET byId == documentsById(response)
             view == viewNameOf(queryUsed)
         IN IF view.err # <<>>
            THEN {Outcome(<<>>, TRUE, <<"error extracting view name from query">> \o view.err,
                          <<"getDocID", "extractCollectionNameFromQuery">>, <<>>)}
            ELSE LET got == QueryAttestationRecords(stored, view.name, DOMAIN byId, storeOk)
                     steps == <<"getDocID", "extractCollectionNameFromQuery", "QueryArray">>
                     sets == docIDToCIDSet(got.rows)
                 IN {Outcome(items, FALSE, <<>>, steps, attestationCounts(sets)) :
                        items \in newResponses(byId, sets, minimumAttestationThreshold)}

\* filterMinimumIndexerAttestations: the outcomes the call can have (one for
\* each order of the final range over the map), each with the steps it took
filterMinimumIndexerAttestations(stored, response, minimumAttestationThreshold, queryUsed, storeOk) ==
    IF thresholdIsZero(minimumAttestationThreshold)
    THEN {Outcome(response, FALSE, <<>>, <<>>, <<>>)}
    ELSE IF \E i \in DOMAIN response : getDocID(response[i]).err # <<>>
    THEN LET i == CHOOSE k \in DOMAIN response :
                     /\ getDocID(response[k]).err # <<>>
                     /\ \A j \in 1..(k-1) : getDocID(response[j]).err = <<>>
         IN {Outcome(<<>>, TRUE, <<"error retrieving DocID">> \o getDocID(response[i]).err,
                     <<"getDocID">>, <<>>)}
    ELSE LET byId == documentsById(response)
             view == viewNameOf(queryUsed)
         IN IF view.err # <<>>
            THEN {Outcome(<<>>, TRUE, <<"error extracting view name from query">> \o view.err,
                          <<"getDocID", "extractCollectionNameFromQuery">>, <<>>)}
            ELSE LET got == QueryAttestationRecords(stored, view.name, DOMAIN byId, storeOk)
                     steps == <<"getDocID", "extractCollectionNameFromQuery", "QueryArray">>
                 IN IF got.err # <<>>
                    THEN {Outcome(<<>>, TRUE, <<"error querying attestation records">> \o got.err,
                                  steps, <<>>)}
                    ELSE LET sets == docIDToCIDSet(got.rows)
                         IN {Outcome(items, FALSE, <<>>, steps, attestationCounts(sets)) :
                                items \in newResponses(byId, sets, minimumAttestationThreshold)}

\* filterMinimumIndexerAttestations when defra.QueryArray returns got for the
\* query the filter sends, whatever the store made of the query's filter
filterMinimumIndexerAttestationsGiven(got, response, minimumAttestationThreshold, queryUsed) ==
    IF thresholdIsZero(minimumAttestationThreshold)
    THEN {Outcome(response, FALSE, <<>>, <<>>, <<>>)}
    ELSE IF \E i \in DOMAIN response : getDocID(response[i]).err # <<>>
    THEN LET i == CHOOSE k \in DOMAIN response :
                     /\ getDocID(response[k]).err # <<>>
                     /\ \A j \in 1..(k-1) : getDocID(response[j]).err = <<>>
         IN {Outcome(<<>>, TRUE, <<"error retrieving DocID">> \o getDocID(response[i]).err,
                     <<"getDocID">>, <<>>)}
    ELSE LET byId == documentsById(response)
             view == viewNameOf(queryUsed)
         IN IF view.err # <<>>
            THEN {Outcome(<<>>, TRUE, <<"error extracting view name from query">> \o view.err,
                          <<"getDocID", "extractCollectionNameFromQuery">>, <<>>)}
            ELSE LET steps == <<"getDocID", "extractCollectionNameFromQuery", "QueryArray">>
                 IN IF got.err # <<>>
                    THEN {Outcome(<<>>, TRUE, <<"error querying attestation records">> \o got.err,
                                  steps, <<>>)}
                    ELSE LET sets == docIDToCIDSet(got.rows)
                         IN {Outcome(items, FALSE, <<>>, steps, attestationCounts(sets)) :
                                items \in newResponses(byId, sets, minimumAttestationThreshold)}

\* the view the store holds no attestation collection for
BlockView == <<"B", "l", "o", "c", "k">>
\* the id lists GetAttestationRecords is called with
IdLists == {<<>>, <<"d1">>, <<"d1", "d2">>}

\* GetAttestationRecords: the query is built from viewDocIds as they are and
\* sent; an answer without rows is an error
GetAttestationRecords(stored, associatedViewName, viewDocIds, storeOk) ==
    LET got == QueryAttestationRecords(stored, associatedViewName, Range(viewDocIds), storeOk)
        steps == <<"QueryArray">>
    IN IF got.err # <<>>
       THEN Outcome(<<>>, TRUE, <<"Error fetching attestation record">> \o got.err, steps, <<>>)
       ELSE IF Len(got.rows) = 0
       THEN Outcome(<<>>, TRUE, <<"No attestation records found with query">>, steps, <<>>)
       ELSE Outcome(got.rows, FALSE, <<>>, steps, <<>>)

\* ------------------------------------------------------------ configuration

\* Length of the MinimumAttestations setting at most.
MaxSetting == 3

\* *Config: nil, or a Config with its Shinzo.MinimumAttestations setting
NilConfig == [isNil |-> TRUE, MinimumAttestations |-> <<>>]
Config(setting) == [isNil |-> FALSE, MinimumAttestations |-> setting]

\* the characters the settings of the model are written with
SettingChars == {"0", "2", "a", "-", " ", "_"}
Settings == UNION {[1..n -> SettingChars] : n \in 0..MaxSetting}

\* the length of the longest prefix of s made of characters of the set cs
PrefixLen(s, cs) ==
    IF \A i \in DOMAIN s : s[i] \in cs THEN Len(s)
    ELSE (CHOOSE i \in DOMAIN s : s[i] \notin cs /\ \A j \in 1..(i-1) : s[j] \in cs) - 1

\* fmt.Sscanf(str, "%d", &threshold) for a uint: leading blanks are skipped
\* (a newline is an error), the token is the longest run of digits and
\* underscores and must not be empty, strconv.ParseUint in base 10 rejects a
\* token with an underscore; what follows the token is not looked at
Sscanf(str) ==
    LET rest == From(str, PrefixLen(str, {" ", "\t", "\r", "\f"}))
        tok  == Upto(rest, PrefixLen(rest, Digits \cup {"_"}))
    IN IF rest = <<>> THEN [value |-> 0, err |-> <<"unexpected EOF">>]
       ELSE IF rest[1] = "\n" THEN [value |-> 0, err |-> <<"unexpected newline">>]
       ELSE IF tok = <<>> THEN [value |-> 0, err |-> <<"expected integer">>]
       ELSE IF "_" \in Range(tok) THEN [value |-> 0, err |-> <<"invalid syntax">>]
       ELSE [value |-> parseDigits(tok), err |-> <<>>]

\* Config.GetMinimumAttestations
GetMinimumAttestations(c) ==
    IF c.isNil \/ c.MinimumAttestations = <<>> THEN 0
    ELSE LET scanned == Sscanf(c.MinimumAttestations)
         IN IF scanned.err # <<>> THEN 0 ELSE scanned.value

\* ------------------------------------------------------------------ contexts

\* the timeout of the context queryClient.query makes, in seconds
QueryTimeout == 120

\* a context.Context: the root it descends from ("caller": the context the
\* caller passed; "background": context.Background()) and its timeout in
\* seconds (0: none)
CallerContext == [root |-> "caller", timeout |-> 0]
WithTimeout(parent, seconds) == [root |-> parent.root, timeout |-> seconds]
Background == [root |-> "background", timeout |-> 0]

\* the context queryClient.query hands to DB.ExecRequest
queryClientContext(callerCtx) == WithTimeout(Background, QueryTimeout)

\* the context defraQueryClient.query hands to DB.ExecRequest
defraQueryClientContext(callerCtx) == callerCtx

\* the query client each operation runs its query with
QueryOperations == {"QuerySingle", "QueryArray", "DefraQuerySingle", "DefraQueryArray"}
usesQueryClient(op) == op \in {"QuerySingle", "QueryArray"}

execContext(op, callerCtx) ==
    IF usesQueryClient(op) THEN queryClientContext(callerCtx) ELSE defraQueryClientContext(callerCtx)

\* ctx.Done() is closed: the context descends from the caller's and the
\* caller has canceled, or its own timeout has passed
ContextDone(c, callerState, expired) ==
    \/ c.root = "caller" /\ callerState = "canceled"
    \/ c.timeout > 0 /\ expired

NoExec == [running |-> FALSE, ctx |-> Background, expired |-> FALSE]

\* ------------------------------------------------------------ query wrapping

\* fmt.Sprintf("query { %s }", content)
wrapped(content) == <<"q", "u", "e", "r", "y", " ", "{", " ">> \o content \o <<" ", "}">>

\* the keyword, followed by a space or by nothing more
startsWithKeyword(lowerTrimmed, keywordAndSpace) ==
    \/ HasPrefix(lowerTrimmed, keywordAndSpace)
    \/ lowerTrimmed = Upto(keywordAndSpace, Len(keywordAndSpace) - 1)

wrapQueryIfNeeded(query) ==
    LET trimmed == TrimSpace(query)
        lowerTrimmed == ToLower(trimmed)
    IN  IF startsWithKeyword(lowerTrimmed, KwQuery) THEN query
        ELSE IF startsWithKeyword(lowerTrimmed, KwMutation) THEN query
        ELSE IF startsWithKeyword(lowerTrimmed, KwSubscription) THEN query
        ELSE IF Len(trimmed) >= 2 /\ trimmed[1] = "{" /\ trimmed[Len(trimmed)] = "}"
        THEN wrapped(TrimSpace(SubSeq(trimmed, 2, Len(trimmed) - 1)))
        ELSE wrapped(TrimSpace(query))

\* ------------------------------------------------------------ bootstrap peers
\* A bootstrap string is "<address>/p2p/<peer id>"; strings are tuples of
\* characters.

P2PSeparator == <<"/", "p", "2", "p", "/">>

\* strings.Index: where substr first starts in s, 0 when it does not occur
Index(s, substr) ==
    LET starts == {i \in 1..(Len(s) - Len(substr) + 1) :
                      SubSeq(s, i, i + Len(substr) - 1) = substr}
    IN  IF starts = {} THEN 0 ELSE CHOOSE i \in starts : \A j \in starts : i <= j

\* strings.Split with a non-empty separator
RECURSIVE Split(_, _)
Split(s, sep) ==
    LET i == Index(s, sep) IN
    IF i = 0 THEN <<s>>
    ELSE <<SubSeq(s, 1, i - 1)>> \o Split(SubSeq(s, i + Len(sep), Len(s)), sep)

PeerInfo(addresses, id) == [Addresses |-> addresses, ID |-> id]

PeerError(i, msg) == [index |-> i, msg |-> msg]

Conversion(items, errors) == [items |-> items, errors |-> errors]

\* the loop of bootstrapIntoPeers from index i (0-based in the messages)
RECURSIVE bootstrapIntoPeersFrom(_, _, _, _)
bootstrapIntoPeersFrom(configuredBootstrapPeers, i, peers, errors) ==
    IF i > Len(configuredBootstrapPeers) THEN Conversion(peers, errors)
    ELSE LET parts == Split(configuredBootstrapPeers[i], P2PSeparator) IN
         IF Len(parts) # 2
         THEN bootstrapIntoPeersFrom(configuredBootstrapPeers, i + 1, peers,
                  Append(errors, PeerError(i - 1, "is invalid and will be skipped")))
         ELSE bootstrapIntoPeersFrom(configuredBootstrapPeers, i + 1,
                  Append(peers, PeerInfo(<<parts[1]>>, parts[2])), errors)

bootstrapIntoPeers(configuredBootstrapPeers) ==
    bootstrapIntoPeersFrom(configuredBootstrapPeers, 1, <<>>, <<>>)

\* "Use the first address if multiple addresses are provided"
firstAddress(addresses) == addresses[1]

RECURSIVE PeersIntoBootstrapFrom(_, _, _, _)
PeersIntoBootstrapFrom(peers, i, bootstrapPeers, errors) ==
    IF i > Len(peers) THEN Conversion(bootstrapPeers, errors)
    ELSE IF peers[i].ID = <<>>
    THEN PeersIntoBootstrapFrom(peers, i + 1, bootstrapPeers,
             Append(errors, PeerError(i - 1, "has empty ID and will be skipped")))
    ELSE IF Len(peers[i].Addresses) = 0
    THEN PeersIntoBootstrapFrom(peers, i + 1, bootstrapPeers,
             Append(errors, PeerError(i - 1, "has no addresses and will be skipped")))
    ELSE PeersIntoBootstrapFrom(peers, i + 1,
             Append(bootstrapPeers, firstAddress(peers[i].Addresses) \o P2PSeparator \o peers[i].ID),
             errors)

PeersIntoBootstrap(peers) == PeersIntoBootstrapFrom(peers, 1, <<>>, <<>>)

\* ------------------------------------------------------------ key management
\* The keyring of one store path, opened with one secret: the entries under
\* nodeIdentityKeyName and peerKeyName. A private key is a number; generating
\* one yields a number that was never generated before.

\* how many calls of getOrCreateNodeIdentity one store path sees
MaxStartups == 3

KeyTypeSecp256k1 == "secp256k1"

NoEntry == [kind |-> "absent"]
\* an entry the keyring cannot decrypt: Get fails on it
CorruptEntry == [kind |-> "corrupt"]
\* "keyType:privateKeyBytes"
TypedEntry(keyType, key) == [kind |-> "typed", keyType |-> keyType, key |-> key]
\* the old format, the private key bytes alone; some keys hold the byte ':'
RawEntry(key, hasColon) == [kind |-> "raw", key |-> key, hasColon |-> hasColon]
\* a peer key of PrivateKeySize bytes, or of another length
PeerEntry(key, sized) == [kind |-> "peer", key |-> key, sized |-> sized]

NoKey == 0
KeyResult(key, err, entry, next) == [key |-> key, err |-> err, entry |-> entry, next |-> next]

\* keyring.Get: the entry, ErrNotFound, or another error
Get(entry, readOk) ==
    IF entry.kind = "absent" THEN "ErrNotFound"
    ELSE IF entry.kind = "corrupt" \/ ~readOk THEN "error"
    ELSE "found"

\* keyring.Set: the entry is written, or it is left as it was
Set(entry, value, writeOk) == IF writeOk THEN value ELSE entry

createAndStoreNodeIdentity(entry, next, writeOk) ==
    KeyResult(next, <<>>, Set(entry, TypedEntry(KeyTypeSecp256k1, next), writeOk), next + 1)

loadNodeIdentityFromKeyring(entry, next, writeOk) ==
    IF entry.kind = "raw" /\ ~entry.hasColon
    THEN KeyResult(entry.key, <<>>,
                   Set(entry, TypedEntry(KeyTypeSecp256k1, entry.key), writeOk), next)
    ELSE IF entry.kind = "typed" /\ entry.keyType = KeyTypeSecp256k1
    THEN KeyResult(entry.key, <<>>, entry, next)
    ELSE KeyResult(NoKey, <<"failed to reconstruct private key">>, entry, next)

getOrCreateNodeIdentityFromKeyring(entry, next, readOk, writeOk) ==
    LET got == Get(entry, readOk) IN
    IF got = "error"
    THEN KeyResult(NoKey, <<"failed to get node identity from keyring">>, entry, next)
    ELSE IF got = "ErrNotFound"
    THEN createAndStoreNodeIdentity(entry, next, writeOk)
    ELSE loadNodeIdentityFromKeyring(entry, next, writeOk)

createAndStorePeerKey(entry, next, writeOk) ==
    KeyResult(next, <<>>, Set(entry, PeerEntry(next, TRUE), writeOk), next + 1)

loadPeerKeyFromKeyring(entry, next) ==
    IF entry.kind = "peer" /\ entry.sized
    THEN KeyResult(entry.key, <<>>, entry, next)
    ELSE KeyResult(NoKey, <<"invalid peer key length">>, entry, next)

\* a peer key lookup that never finds the stored key
getOrCreatePeerKeyFromKeyring_AlwaysCreates(entry, next, readOk, writeOk) ==
    createAndStorePeerKey(entry, next, writeOk)

getOrCreatePeerKeyFromKeyring(entry, next, readOk, writeOk) ==
    LET got == Get(entry, readOk) IN
    IF got = "error"
    THEN KeyResult(NoKey, <<"failed to get peer key from keyring">>, entry, next)
    ELSE IF got = "ErrNotFound"
    THEN createAndStorePeerKey(entry, next, writeOk)
    ELSE loadPeerKeyFromKeyring(entry, next)

NodeKeys(identity, peerKey) == [Identity |-> identity, PeerKey |-> peerKey]

\* getOrCreateNodeIdentity on the keyring kr: the keys and the error it
\* returns, and the keyring it leaves
getOrCreateNodeIdentity(kr, readIdOk, writeIdOk, readPeerOk, writePeerOk) ==
    IF kr.secret = <<>>
    THEN [keys |-> NodeKeys(NoKey, NoKey),
          err |-> <<"failed to open keyring", "keyring secret is required for encrypted key storage">>,
          keyring |-> kr]
    ELSE
    LET id == getOrCreateNodeIdentityFromKeyring(kr.identity, kr.next, readIdOk, writeIdOk)
        peer == getOrCreatePeerKeyFromKeyring(kr.peer, id.next, readPeerOk, writePeerOk)
    IN  IF id.err # <<>>
        THEN [keys |-> NodeKeys(NoKey, NoKey), err |-> id.err,
              keyring |-> [kr EXCEPT !.identity = id.entry, !.next = id.next]]
        ELSE IF peer.err # <<>>
        THEN [keys |-> NodeKeys(NoKey, NoKey), err |-> peer.err,
              keyring |-> [kr EXCEPT !.identity = id.entry, !.next = id.next]]
        ELSE [keys |-> NodeKeys(id.key, peer.key), err |-> <<>>,
              keyring |-> [kr EXCEPT !.identity = id.entry, !.peer = peer.entry, !.next = peer.next]]

\* no store path in use
NoKeyring == [secret |-> <<>>, identity |-> NoEntry, peer |-> NoEntry, next |-> 1]

\* ------------------------------------------------------------ starting a node
\* "Here, we can add some big peers": none are configured
requiredPeers == <<>>

\* connectToPeers: one error for every peer DB.Connect does not reach, in the
\* order of the peers; connected[i] is the outcome of the connection to peers[i]
RECURSIVE connectToPeersFrom(_, _, _, _)
connectToPeersFrom(peers, connected, i, errors) ==
    IF i > Len(peers) THEN errors
    ELSE IF ~connected[i]
    THEN connectToPeersFrom(peers, connected, i + 1,
             Append(errors, PeerError(i - 1, "error connecting to peer")))
    ELSE connectToPeersFrom(peers, connected, i + 1, errors)

connectToPeers(peers, connected) == connectToPeersFrom(peers, connected, 1, <<>>)

\* every failed connection is fatal
failedToConnectToAnyPeers_OneFailure(errors, peers) == Len(errors) > 0

\* the test that ends the startup: there are errors, one for every peer
failedToConnectToAnyPeers(errors, peers) ==
    Len(errors) > 0 /\ Len(errors) = Len(peers)

\* no node was asked for yet
NoNode ==
    [pc |-> "idle", state |-> "none", bootstrap |-> <<>>, peers |-> <<>>,
     connected |-> <<>>, logged |-> <<>>, steps |-> <<>>, returned |-> FALSE, err |-> <<>>]

\* ------------------------------------------------------------ state machine

VARIABLES
    collection,  \* the documents of the User collection, in the store's result order
    records,     \* the rows of AttestationRecord_User, in the store's order
    pc,          \* "idle", "searching" or "done": where the caller's invocation is
    call,        \* the invocation: its operation and arguments
    limit,       \* the limit of the search's next attempt
    attempts,    \* the search's attempts so far: the limit requested, the rows returned
    outcome,     \* what the invocation returned and the steps it took
    config,      \* the configuration the process was started with
    ctx,         \* the context the caller passed to the running operation: "active" or "canceled"
    exec,        \* the store's ExecRequest of the running operation and the context it was given
    previous,    \* the invocation before this one, as the caller kept it: call, store content, result
    procs,       \* the invocations of the concurrent callers, each with its own locals
    keyring,     \* the keyring of the store path: its secret, its two entries, the next key to be generated
    startups,    \* the calls of getOrCreateNodeIdentity on that store path so far: what each found, returned and left
    node         \* the node StartDefraInstance is starting: how far the call got, the node's state, what was logged, what the call returned

vars == <<collection, records, pc, call, limit, attempts, outcome, config, ctx, exec, previous, procs, keyring, startups, node>>

Thresholds == 0..3
Responses == UNION {[1..n -> DocPool] : n \in 0..MaxResp}

NoCall == [op |-> "none", response |-> <<>>, threshold |-> 0, query |-> <<>>]
NoOutcome == Outcome(<<>>, TRUE, <<>>, <<>>, <<>>)

\* the concurrent callers
Procs == {"p1", "p2"}

\* a caller that is not in an invocation; the fields after query are the
\* locals of the invocation
IdleProc ==
    [pc |-> "idle", op |-> "none", response |-> <<>>, threshold |-> 0, query |-> <<>>,
     byId |-> <<>>, view |-> <<>>, rows |-> <<>>, sets |-> <<>>, limit |-> 0,
     overlapped |-> FALSE, result |-> NoOutcome]

NoPrevious == [call |-> NoCall, store |-> <<>>, outcome |-> NoOutcome]

Init ==
    /\ collection = <<>>
    /\ records = <<>>
    /\ pc = "idle"
    /\ call = NoCall
    /\ limit = 0
    /\ attempts = <<>>
    /\ outcome = NoOutcome
    /\ config = NilConfig
    /\ node = NoNode
    /\ keyring = NoKeyring
    /\ startups = <<>>
    /\ procs = [p \in Procs |-> IdleProc]
    /\ previous = NoPrevious
    /\ ctx = "active"
    /\ exec = NoExec

\* the test helper createAttestationRecord: one more row in the store
createAttestationRecord(max, ids) ==
    /\ pc = "idle"
    /\ Len(records) < max
    /\ \E d \in ids, cids \in CidLists :
          records' = Append(records, [attested_doc |-> d, CIDs |-> cids])
    /\ UNCHANGED <<config, node, keyring, startups, procs, previous, ctx, exec, collection, pc, call, limit, attempts, outcome>>

\* a call of filterMinimumIndexerAttestations
Filter ==
    /\ pc = "idle"
    /\ \E response \in Responses, t \in Thresholds, q \in FilterQueries, storeOk \in BOOLEAN :
          /\ call' = [op |-> "filter", response |-> response, threshold |-> t, query |-> q]
          /\ outcome' \in filterMinimumIndexerAttestations(records, response, t, q, storeOk)
    /\ pc' = "done"
    /\ UNCHANGED <<config, node, keyring, startups, procs, previous, ctx, exec, collection, records, limit, attempts>>

\* a call of GetAttestationRecords
Fetch ==
    /\ pc = "idle"
    /\ \E ids \in IdLists, view \in {UserView, BlockView}, storeOk \in BOOLEAN :
          /\ call' = [op |-> "fetch", view |-> view, ids |-> ids]
          /\ outcome' = GetAttestationRecords(records, view, ids, storeOk)
    /\ pc' = "done"
    /\ UNCHANGED <<config, node, keyring, startups, procs, previous, ctx, exec, collection, records, limit, attempts>>

\* the caller takes the result; the next invocation starts afresh
Return ==
    /\ pc = "done"
    /\ pc' = "idle"
    /\ call' = NoCall
    /\ outcome' = NoOutcome
    /\ limit' = 0
    /\ attempts' = <<>>
    /\ UNCHANGED <<config, node, keyring, startups, procs, previous, ctx, exec, collection, records>>

Next ==
    \/ createAttestationRecord(MaxRecords, DocIDs)
    \/ Filter
    \/ Fetch
    \/ Return

Spec == Init /\ [][Next]_vars

\* --------------------------------------------------- reading the configuration

InitConfig ==
    /\ collection = <<>>
    /\ records = <<>>
    /\ pc = "idle"
    /\ call = NoCall
    /\ limit = 0
    /\ attempts = <<>>
    /\ outcome = NoOutcome
    /\ config \in {NilConfig} \cup {Config(s) : s \in Settings}
    /\ node = NoNode
    /\ keyring = NoKeyring
    /\ startups = <<>>
    /\ procs = [p \in Procs |-> IdleProc]
    /\ previous = NoPrevious
    /\ ctx = "active"
    /\ exec = NoExec

\* a call of config.GetMinimumAttestations
ReadMinimumAttestations ==
    /\ pc = "idle"
    /\ call' = [op |-> "GetMinimumAttestations"]
    /\ outcome' = Outcome(<<GetMinimumAttestations(config)>>, FALSE, <<>>, <<>>, <<>>)
    /\ pc' = "done"
    /\ UNCHANGED <<config, node, keyring, startups, procs, previous, ctx, exec, collection, records, limit, attempts>>

NextConfig ==
    \/ ReadMinimumAttestations
    \/ Return

SpecConfig == InitConfig /\ [][NextConfig]_vars

\* ---------------------------------------------------- the single-result search
\* QuerySingleWithAttestationFilter is not among the source files at hand
\* (its tests are): the search below follows the design of the adaptive
\* single-result search, with the small constants it leaves open.

\* the limit of the first attempt of a query without a limit of its own
InitialLimit == 1
\* the factor the limit grows by from one attempt to the next
LimitGrowth == 2

\* the documents createTestDocument writes, in the store's result order
StoreDocs == <<Doc("d1", "a"), Doc("d2", "b"), Doc("d3", "c"), Doc("d4", "d")>>
\* the collections the store holds documents of
Collections == {UserView}

Min(a, b) == IF a <= b THEN a ELSE b

\* defra.QueryArray[T] of the caller's query with the limit lim: the first
\* lim documents of the collection the query names
QueryDocuments(docs, query, lim, storeOk) ==
    IF ~storeOk THEN [rows |-> <<>>, err |-> <<"store failure">>]
    ELSE LET view == viewNameOf(query)
         IN IF view.err # <<>> \/ view.name \notin Collections
            THEN [rows |-> <<>>, err |-> <<"Cannot query field">>]
            ELSE [rows |-> SubSeq(docs, 1, Min(lim, Len(docs))), err |-> <<>>]

\* isFixedLimit of a search that treats every query as one without a limit
isFixedLimit_Never(query) == FALSE

\* the Fixed-Limit state: the query carries a limit of its own
isFixedLimit(query) == hasLimitOf(query) /\ limitValueOf(query).found

\* the limit of the first attempt
firstLimit(query) ==
    IF isFixedLimit(query) THEN limitValueOf(query).value ELSE InitialLimit

\* nextLimit of a search whose limit stops growing at two
nextLimit_Capped(lim) == Min(lim * LimitGrowth, 2)

\* the limit of the attempt after one with the limit lim
nextLimit(lim) == lim * LimitGrowth

\* isExhausted that also takes a full page for the end of the collection
isExhausted_Inclusive(returned, lim) == returned <= lim

\* the collection is exhausted: fewer rows came back than were asked for
isExhausted(returned, lim) == returned < lim

NoQualifyingResult == "no results found that meet the minimum attestation threshold"
ErrWithinLimit == <<NoQualifyingResult, "within the limit of the query">>
ErrEntireCollection == <<NoQualifyingResult, "after querying entire collection">>

\* what one attempt of the search decides, given the answer of the document
\* query and the outcome f of the filter applied to it: "error", "found",
\* "fail" (no qualifying result, final) or "retry"
attemptVerdict(query, got, f, lim) ==
    IF got.err # <<>> THEN "error"
    ELSE IF f.err # <<>> THEN "error"
    ELSE IF f.items # <<>> THEN "found"
    ELSE IF isFixedLimit(query) THEN "fail"
    ELSE IF isExhausted(Len(got.rows), lim) THEN "fail"
    ELSE "retry"

\* failError that words every failure as one within the query's limit
failError_WithinLimit(query) == ErrWithinLimit

\* the error of a search that found no qualifying result
failError(query) == IF isFixedLimit(query) THEN ErrWithinLimit ELSE ErrEntireCollection

\* which query of an attempt the store failed: "documents", "attestations"
\* (the filter got as far as its query and the store did not answer) or "none"
queryFailure(got, f, storeOk) ==
    IF got.err # <<>> THEN "documents"
    ELSE IF "QueryArray" \in Range(f.steps) /\ ~storeOk THEN "attestations"
    ELSE "none"

\* the test helper createTestDocument: one more document in the collection
createTestDocument ==
    /\ pc = "idle"
    /\ Len(collection) < MaxDocs
    /\ collection' = Append(collection, StoreDocs[Len(collection) + 1])
    /\ UNCHANGED <<config, node, keyring, startups, procs, previous, ctx, exec, records, pc, call, limit, attempts, outcome>>

\* a call of QuerySingleWithAttestationFilter: the state is chosen
QuerySingleWithAttestationFilter ==
    /\ pc = "idle"
    /\ \E t \in Thresholds, q \in SearchQueries :
          /\ call' = [op |-> "search", response |-> <<>>, threshold |-> t, query |-> q]
          /\ limit' = firstLimit(q)
    /\ pc' = "searching"
    /\ attempts' = <<>>
    /\ outcome' = NoOutcome
    /\ UNCHANGED <<config, node, keyring, startups, procs, previous, ctx, exec, collection, records>>

\* one attempt of the search: the document query with the current limit, the
\* filter on its rows, and the decision
searchAttempt ==
    /\ pc = "searching"
    /\ \E docsOk \in BOOLEAN, storeOk \in BOOLEAN :
          LET got == QueryDocuments(collection, call.query, limit, docsOk)
          IN \E f \in IF got.err # <<>> THEN {NoOutcome}
                       ELSE filterMinimumIndexerAttestations(records, got.rows, call.threshold,
                                                             call.query, storeOk) :
                LET verdict == attemptVerdict(call.query, got, f, limit)
                    steps == outcome.steps \o <<"QueryDocuments">> \o f.steps
                IN /\ attempts' = Append(attempts, [limit |-> limit, returned |-> Len(got.rows),
                                                    failed |-> queryFailure(got, f, storeOk)])
                   /\ CASE verdict = "error" ->
                            /\ outcome' = Outcome(<<ZeroDoc>>, FALSE,
                                                  IF got.err # <<>> THEN got.err ELSE f.err, steps, <<>>)
                            /\ pc' = "done"
                            /\ limit' = limit
                        [] verdict = "found" ->
                            /\ outcome' = Outcome(<<f.items[1]>>, FALSE, <<>>, steps, <<>>)
                            /\ pc' = "done"
                            /\ limit' = limit
                        [] verdict = "fail" ->
                            /\ outcome' = Outcome(<<ZeroDoc>>, FALSE, failError(call.query), steps, <<>>)
                            /\ pc' = "done"
                            /\ limit' = limit
                        [] verdict = "retry" ->
                            /\ outcome' = Outcome(<<>>, TRUE, <<>>, steps, <<>>)
                            /\ pc' = "searching"
                            /\ limit' = nextLimit(limit)
    /\ UNCHANGED <<config, node, keyring, startups, procs, previous, ctx, exec, collection, records, call>>

NextSearch ==
    \/ createTestDocument
    \/ createAttestationRecord(SearchMaxRecords, {collection[i].DocID : i \in DOMAIN collection})
    \/ QuerySingleWithAttestationFilter
    \/ searchAttempt
    \/ Return

SpecSearch == Init /\ [][NextSearch]_vars

\* the attempts of one call follow one another without interruption
SpecSearchFair == SpecSearch /\ WF_vars(searchAttempt)

\* ------------------------------------------ the configured-threshold variants
\* QueryArrayWithAttestationFilter and the two ...WithConfigured... functions
\* are not among the source files at hand either (their tests are): they
\* follow the design, the configured ones reading the threshold from the
\* configuration the process was started with.

\* the configurations the tests start the process with
StartConfigs == {NilConfig, Config(<<"2">>), Config(<<"1">>), Config(<<"-", "2">>)}

\* the rows the store returns for the caller's query as it is written
ownLimit(docs, query) ==
    IF isFixedLimit(query) THEN limitValueOf(query).value ELSE Len(docs)

\* QueryArrayWithAttestationFilter: the query, then the filter on its rows;
\* the outcomes the call can have
QueryArrayWithAttestationFilter(docs, stored, query, t, docsOk, storeOk) ==
    LET got == QueryDocuments(docs, query, ownLimit(docs, query), docsOk)
    IN IF got.err # <<>>
       THEN {Outcome(<<>>, TRUE, got.err, <<"QueryDocuments">>, <<>>)}
       ELSE {Outcome(f.items, f.isNil, f.err, <<"QueryDocuments">> \o f.steps, f.counts) :
                f \in filterMinimumIndexerAttestations(stored, got.rows, t, query, storeOk)}

\* QuerySingleWithAttestationFilter as a function: the results (document and
\* error) the search that starts with the limit lim can return
RECURSIVE QuerySingleResults(_, _, _, _, _)
QuerySingleResults(docs, stored, query, t, lim) ==
    UNION {
        LET got == QueryDocuments(docs, query, lim, oks[1])
        IN UNION {
             LET verdict == attemptVerdict(query, got, f, lim)
             IN CASE verdict = "error" ->
                       {[items |-> <<ZeroDoc>>, err |-> IF got.err # <<>> THEN got.err ELSE f.err]}
                  [] verdict = "found" -> {[items |-> <<f.items[1]>>, err |-> <<>>]}
                  [] verdict = "fail" -> {[items |-> <<ZeroDoc>>, err |-> failError(query)]}
                  [] verdict = "retry" -> QuerySingleResults(docs, stored, query, t, nextLimit(lim))
             : f \in IF got.err # <<>> THEN {NoOutcome}
                     ELSE filterMinimumIndexerAttestations(stored, got.rows, t, query, oks[2])}
        : oks \in BOOLEAN \X BOOLEAN}

\* configuredThreshold of variants that never filter
configuredThreshold_Disabled(cfg) == 0

\* the threshold the configured variants pass on
configuredThreshold(cfg) == GetMinimumAttestations(cfg)

InitConfigured ==
    /\ collection = <<>>
    /\ records = <<>>
    /\ pc = "idle"
    /\ call = NoCall
    /\ limit = 0
    /\ attempts = <<>>
    /\ outcome = NoOutcome
    /\ config \in StartConfigs
    /\ node = NoNode
    /\ keyring = NoKeyring
    /\ startups = <<>>
    /\ procs = [p \in Procs |-> IdleProc]
    /\ previous = NoPrevious
    /\ ctx = "active"
    /\ exec = NoExec

\* a call of QueryArrayWithConfiguredAttestationFilter
QueryArrayWithConfiguredAttestationFilter ==
    /\ pc = "idle"
    /\ \E q \in SearchQueries, docsOk \in BOOLEAN, storeOk \in BOOLEAN :
          /\ call' = [op |-> "arrayConfigured", response |-> <<>>,
                      threshold |-> configuredThreshold(config), query |-> q]
          /\ outcome' \in QueryArrayWithAttestationFilter(collection, records, q,
                                                          configuredThreshold(config), docsOk, storeOk)
    /\ pc' = "done"
    /\ UNCHANGED <<config, node, keyring, startups, procs, previous, ctx, exec, collection, records, limit, attempts>>

\* a call of QuerySingleWithConfiguredAttestationFilter: the search starts
\* with the configured threshold
QuerySingleWithConfiguredAttestationFilter ==
    /\ pc = "idle"
    /\ \E q \in SearchQueries :
          /\ call' = [op |-> "searchConfigured", response |-> <<>>,
                      threshold |-> configuredThreshold(config), query |-> q]
          /\ limit' = firstLimit(q)
    /\ pc' = "searching"
    /\ attempts' = <<>>
    /\ outcome' = NoOutcome
    /\ UNCHANGED <<config, node, keyring, startups, procs, previous, ctx, exec, collection, records>>

NextConfigured ==
    \/ createTestDocument
    \/ createAttestationRecord(SearchMaxRecords, {collection[i].DocID : i \in DOMAIN collection})
    \/ QueryArrayWithConfiguredAttestationFilter
    \/ QuerySingleWithConfiguredAttestationFilter
    \/ searchAttempt
    \/ Return

SpecConfigured == InitConfigured /\ [][NextConfigured]_vars

\* ------------------------------------------------ the text functions, called
\* The query texts the text functions are called with: the well-formed ones
\* are put together from an operation keyword, an alias, a name, an argument
\* list and the white space between them.

Keywords == {<<>>, <<"q", "u", "e", "r", "y">>, <<"m", "u", "t", "a", "t", "i", "o", "n">>, <<"s", "u", "b", "s", "c", "r", "i", "p", "t", "i", "o", "n">>, <<"Q", "u", "e", "r", "y">>}
Aliases == {<<>>, <<"m", "y", "A", "l", "i", "a", "s">>}
Names == {<<"U", "s", "e", "r">>, <<"R", "e", "c", "_", "V", "i", "e", "w", "2">>}
ArgLists == {<<>>, <<"(", "l", "i", "m", "i", "t", ":", " ", "1", ")">>, <<"(", "f", "i", "l", "t", "e", "r", ":", " ", "{", "n", "a", "m", "e", ":", " ", "{", "_", "e", "q", ":", " ", "\"", "T", "\"", "}", "}", ")">>}
Selection == <<"{", " ", "n", "a", "m", "e", " ", "}", " ", "}">>

\* white space after the keyword, after the opening brace, between alias and
\* colon, after the colon, and after the name
GapsAfterKeyword == {<<>>, <<" ">>, <<"\n">>}
GapsAfterBrace == {<<>>, <<" ">>}
GapsBeforeColon == {<<>>, <<" ">>}
GapsAfterColon == {<<>>, <<" ">>, <<"\n", "\t">>}
GapsAfterName == {<<>>, <<" ">>}

WellFormedCase(kw, g1, g2, alias, g3, g4, name, g5, args) ==
    [query |-> kw \o g1 \o <<"{">> \o g2
               \o (IF alias = <<>> THEN <<>> ELSE alias \o g3 \o <<":">> \o g4)
               \o name \o args \o g5 \o Selection,
     wellFormed |-> TRUE, alias |-> alias, aliasGap |-> g3, name |-> name, args |-> args]

WellFormedCases ==
    {WellFormedCase(kw, g1, g2, alias, g3, g4, name, g5, args) :
        kw \in Keywords, g1 \in GapsAfterKeyword, g2 \in GapsAfterBrace, alias \in Aliases,
        g3 \in GapsBeforeColon, g4 \in GapsAfterColon, name \in Names, g5 \in GapsAfterName,
        args \in ArgLists}

MalformedQueries ==
    {<<>>, <<" ", " ", " ">>, <<"\n", "\t">>,
     <<"q", "u", "e", "r", "y", " ", "U", "s", "e", "r", " ", "n", "a", "m", "e">>, <<"q", "u", "e", "r", "y">>, <<"U", "s", "e", "r", "(", "l", "i", "m", "i", "t", ":", " ", "1", ")">>,
     <<"{", " ", "{", " ", "U", "s", "e", "r", " ", "}", " ", "}">>, <<"q", "u", "e", "r", "y", " ", "{", "\n", "{", " ", "U", "s", "e", "r", " ", "}", " ", "}">>, <<"q", "u", "e", "r", "y", " ", "{", " ", "}">>, <<"{">>, <<"{", " ", "1", "2", " ", "}">>}

MalformedCases ==
    {[query |-> q, wellFormed |-> FALSE, alias |-> <<>>, aliasGap |-> <<>>, name |-> <<>>,
      args |-> <<>>] : q \in MalformedQueries}

\* a call of extractCollectionNameFromQuery
ExtractCollectionName ==
    /\ pc = "idle"
    /\ \E c \in WellFormedCases \cup MalformedCases :
          /\ call' = [op |-> "extractCollectionNameFromQuery", query |-> c.query, shape |-> c]
          /\ outcome' = LET r == extractCollectionNameFromQuery(c.query)
                        IN Outcome(<<r.name>>, FALSE, r.err, <<>>, <<>>)
    /\ pc' = "done"
    /\ UNCHANGED <<config, node, keyring, startups, procs, previous, ctx, exec, collection, records, limit, attempts>>

\* the texts the limit functions are called with: a limit key in any letter
\* case, white space around its colon and its value, after other arguments
\* or none; and texts without a limit key
LimitKeys == {<<"l", "i", "m", "i", "t">>, <<"L", "I", "M", "I", "T">>, <<"L", "i", "m", "i", "t">>}
LimitValues ==
    {[text |-> <<"0">>, value |-> 0, present |-> TRUE],
     [text |-> <<"5">>, value |-> 5, present |-> TRUE],
     [text |-> <<"1", "0">>, value |-> 10, present |-> TRUE],
     [text |-> <<"2", "0">>, value |-> 20, present |-> TRUE],
     [text |-> <<>>, value |-> 0, present |-> FALSE],
     [text |-> <<"$", "n">>, value |-> 0, present |-> FALSE]}
ArgsBeforeLimit == {<<>>, <<"f", "i", "l", "t", "e", "r", ":", " ", "{", "n", "a", "m", "e", ":", " ", "{", "_", "e", "q", ":", " ", "\"", "T", "\"", "}", "}", ",", " ">>, <<"f", "i", "l", "t", "e", "r", ":", " ", "{", "n", "a", "m", "e", ":", " ", "{", "_", "e", "q", ":", " ", "\"", "l", "i", "m", "i", "t", "\"", "}", "}", ",", " ">>, <<"o", "r", "d", "e", "r", ":", " ", "{", "n", "a", "m", "e", ":", " ", "A", "S", "C", "}", ",">>}
GapsAroundColon == {<<>>, <<" ">>, <<"\n", "\t">>}
GapsAfterValue == {<<>>, <<" ">>}

LimitCase(before, key, g1, g2, v, g3) ==
    [query |-> <<"q", "u", "e", "r", "y", " ", "{", " ", "U", "s", "e", "r", "(">> \o before \o key \o g1 \o <<":">> \o g2 \o v.text \o g3 \o <<")", " ", "{", " ", "n", "a", "m", "e", " ", "}", " ", "}">>,
     hasKey |-> TRUE, key |-> key, gap |-> g1, value |-> v]

LimitCases ==
    {LimitCase(before, key, g1, g2, v, g3) :
        before \in ArgsBeforeLimit, key \in LimitKeys, g1 \in GapsAroundColon \ {<<"\n", "\t">>},
        g2 \in GapsAroundColon, v \in LimitValues, g3 \in GapsAfterValue}

\* no limit key: no argument, the word in a string literal, in a longer
\* identifier before a colon, as a selected field, in the collection's name
NoLimitQueries == {QueryUser, <<"q", "u", "e", "r", "y", " ", "{", " ", "U", "s", "e", "r", "(", "f", "i", "l", "t", "e", "r", ":", " ", "{", "n", "a", "m", "e", ":", " ", "{", "_", "e", "q", ":", " ", "\"", "l", "i", "m", "i", "t", "\"", "}", "}", ")", " ", "{", " ", "n", "a", "m", "e", " ", "}", " ", "}">>, <<"q", "u", "e", "r", "y", " ", "{", " ", "U", "s", "e", "r", "(", "f", "i", "l", "t", "e", "r", ":", " ", "{", "r", "a", "t", "e", "_", "l", "i", "m", "i", "t", ":", " ", "{", "_", "e", "q", ":", " ", "1", "}", "}", ")", " ", "{", " ", "n", "a", "m", "e", " ", "}", " ", "}">>, <<"q", "u", "e", "r", "y", " ", "{", " ", "U", "s", "e", "r", " ", "{", " ", "n", "a", "m", "e", " ", "l", "i", "m", "i", "t", " ", "}", " ", "}">>, <<"q", "u", "e", "r", "y", " ", "{", " ", "L", "i", "m", "i", "t", " ", "{", " ", "n", "a", "m", "e", " ", "}", " ", "}">>, <<"q", "u", "e", "r", "y", " ", "{", " ", "U", "s", "e", "r", "(", "l", "i", "m", "i", "t", "s", ":", " ", "3", ")", " ", "{", " ", "n", "a", "m", "e", " ", "}", " ", "}">>}

NoLimitCases ==
    {[query |-> q, hasKey |-> FALSE, key |-> <<>>, gap |-> <<>>,
      value |-> [text |-> <<>>, value |-> 0, present |-> FALSE]] : q \in NoLimitQueries}

\* a call of extractLimitValue
ExtractLimit ==
    /\ pc = "idle"
    /\ \E c \in LimitCases \cup NoLimitCases :
          /\ call' = [op |-> "extractLimitValue", query |-> c.query, shape |-> c]
          /\ outcome' = LET r == extractLimitValue(c.query)
                        IN Outcome(<<r.value, r.found>>, FALSE, <<>>, <<>>, <<>>)
    /\ pc' = "done"
    /\ UNCHANGED <<config, node, keyring, startups, procs, previous, ctx, exec, collection, records, limit, attempts>>

\* a call of hasLimitParameter
HasLimit ==
    /\ pc = "idle"
    /\ \E c \in LimitCases \cup NoLimitCases :
          /\ call' = [op |-> "hasLimitParameter", query |-> c.query, shape |-> c]
          /\ outcome' = Outcome(<<hasLimitParameter(c.query)>>, FALSE, <<>>, <<>>, <<>>)
    /\ pc' = "done"
    /\ UNCHANGED <<config, node, keyring, startups, procs, previous, ctx, exec, collection, records, limit, attempts>>

NextText ==
    \/ ExtractCollectionName
    \/ ExtractLimit
    \/ HasLimit
    \/ Return

SpecText == Init /\ [][NextText]_vars

\* ------------------------------------------------ queries and their contexts

\* an operation starts its query: the store's ExecRequest runs with the
\* context the query client gave it
StartQuery ==
    /\ pc = "idle"
    /\ \E op \in QueryOperations, q \in FilterQueries \cup SearchQueries :
          /\ call' = [op |-> op, query |-> q]
          /\ exec' = [running |-> TRUE, ctx |-> execContext(op, CallerContext), expired |-> FALSE]
    /\ ctx' = "active"
    /\ pc' = "executing"
    /\ outcome' = NoOutcome
    /\ UNCHANGED <<config, node, keyring, startups, procs, previous, collection, records, limit, attempts>>

\* the caller cancels the context it passed
Cancel ==
    /\ pc = "executing"
    /\ ctx = "active"
    /\ ctx' = "canceled"
    /\ UNCHANGED <<config, node, keyring, startups, procs, previous, exec, collection, records, pc, call, limit, attempts, outcome>>

\* the timeout of the request's context passes
Expire ==
    /\ exec.running
    /\ exec.ctx.timeout > 0
    /\ ~exec.expired
    /\ exec' = [exec EXCEPT !.expired = TRUE]
    /\ UNCHANGED <<config, node, keyring, startups, procs, previous, ctx, collection, records, pc, call, limit, attempts, outcome>>

\* ExecRequest ends: with the context's error if its context is done, with
\* the data (or an error of the store) otherwise
ExecRequest ==
    /\ pc = "executing"
    /\ exec.running
    /\ exec' = [exec EXCEPT !.running = FALSE]
    /\ \/ /\ ContextDone(exec.ctx, ctx, exec.expired)
          /\ outcome' = Outcome(<<>>, TRUE,
                                <<"failed to execute query",
                                  IF exec.expired /\ ~(exec.ctx.root = "caller" /\ ctx = "canceled")
                                  THEN "context deadline exceeded" ELSE "context canceled">>,
                                <<"ExecRequest">>, <<>>)
       \/ /\ ~ContextDone(exec.ctx, ctx, exec.expired)
          /\ \E storeOk \in BOOLEAN :
                outcome' = LET got == QueryDocuments(collection, call.query, Len(collection), storeOk)
                           IN Outcome(got.rows, got.err # <<>>, got.err, <<"ExecRequest">>, <<>>)
    /\ pc' = "done"
    /\ UNCHANGED <<config, node, keyring, startups, procs, previous, ctx, collection, records, call, limit, attempts>>

NextCancel ==
    \/ createTestDocument
    \/ StartQuery
    \/ Cancel
    \/ Expire
    \/ ExecRequest
    \/ Return

SpecCancel == Init /\ [][NextCancel]_vars

\* ------------------------------------------- invocations one after another

\* the response and the thresholds of the repeated invocations
RepeatedResponse == <<Doc("d1", "a"), Doc("d2", "b")>>
RepeatedThresholds == 1..3

\* storeAtCall of a filter that answers from what an earlier invocation read
storeAtCall_Cached(stored, prev) ==
    IF prev.call.op = "filter" THEN prev.store ELSE stored

\* the rows an invocation counts: the filter keeps nothing between calls
\* and queries the store in every call
storeAtCall(stored, prev) == stored

\* a call of filterMinimumIndexerAttestations by a caller that has kept the
\* result of its call before
FilterRepeated ==
    /\ pc = "idle"
    /\ \E t \in RepeatedThresholds, storeOk \in BOOLEAN :
          /\ call' = [op |-> "filter", response |-> RepeatedResponse, threshold |-> t,
                      query |-> QueryUser]
          /\ outcome' \in filterMinimumIndexerAttestations(storeAtCall(records, previous),
                                                           RepeatedResponse, t, QueryUser, storeOk)
    /\ pc' = "done"
    /\ UNCHANGED <<config, node, keyring, startups, procs, ctx, exec, previous, collection, records, limit, attempts>>

\* the caller keeps the result and goes on
KeepResult ==
    /\ pc = "done"
    /\ previous' = [call |-> call, store |-> records, outcome |-> outcome]
    /\ pc' = "idle"
    /\ call' = NoCall
    /\ outcome' = NoOutcome
    /\ UNCHANGED <<config, node, keyring, startups, procs, ctx, exec, collection, records, limit, attempts>>

NextRepeated ==
    \/ createAttestationRecord(MaxRecords, DocIDs)
    \/ FilterRepeated
    \/ KeepResult

SpecRepeated == Init /\ [][NextRepeated]_vars

\* ------------------------------------------------------ concurrent invocations
\* The filter runs step by step, the steps of the callers interleaved; the
\* search runs attempt by attempt. The store does not change meanwhile.

ConcurrentCollection == <<Doc("d1", "a"), Doc("d2", "b")>>
ConcurrentStores ==
    {<<>>,
     <<[attested_doc |-> "d1", CIDs |-> <<"x", "y">>]>>,
     <<[attested_doc |-> "d1", CIDs |-> <<"x", "y">>], [attested_doc |-> "d2", CIDs |-> <<"x">>]>>,
     <<[attested_doc |-> "d2", CIDs |-> <<"x", "z">>], [attested_doc |-> "d2", CIDs |-> <<"x", "y">>]>>}
ConcurrentResponses == {ConcurrentCollection, <<Doc("d2", "b")>>}
ConcurrentThresholds == 0..2

InitConcurrent ==
    /\ collection = ConcurrentCollection
    /\ records \in ConcurrentStores
    /\ pc = "idle"
    /\ call = NoCall
    /\ limit = 0
    /\ attempts = <<>>
    /\ outcome = NoOutcome
    /\ config = NilConfig
    /\ node = NoNode
    /\ keyring = NoKeyring
    /\ startups = <<>>
    /\ procs = [p \in Procs |-> IdleProc]
    /\ previous = NoPrevious
    /\ ctx = "active"
    /\ exec = NoExec

InProgress(p) == procs[p].pc \notin {"idle", "done"}

\* scratchOf of a filter that keeps its CID sets in one package-level map
scratchOf_Shared(p) == "p1"

\* where an invocation keeps docIDToCIDSet: in a local of its own
scratchOf(p) == p

\* a caller starts an invocation of the filter or of the search
Invoke(p) ==
    /\ procs[p].pc = "idle"
    /\ \E op \in {"filter", "search"}, response \in ConcurrentResponses,
          t \in ConcurrentThresholds, q \in {QueryUser, QueryInvalid} :
          /\ op = "search" => response = ConcurrentCollection /\ t >= 1
          /\ procs' = [o \in Procs |->
                IF o = p
                THEN [IdleProc EXCEPT !.pc = IF op = "filter" THEN "start" ELSE "attempt",
                                      !.op = op,
                                      !.response = IF op = "filter" THEN response ELSE <<>>,
                                      !.threshold = t, !.query = q,
                                      !.limit = IF op = "filter" THEN 0 ELSE firstLimit(q),
                                      !.overlapped = \E o2 \in Procs \ {p} : InProgress(o2)]
                ELSE IF InProgress(o) THEN [procs[o] EXCEPT !.overlapped = TRUE]
                ELSE procs[o]]
    /\ UNCHANGED <<config, node, keyring, startups, previous, ctx, exec, collection, records, pc, call, limit, attempts, outcome>>

Finished(p, result) == [procs EXCEPT ![p].pc = "done", ![p].result = result]

\* the next step of a caller's filter invocation
FilterStep(p) ==
    LET me == procs[p] IN
    /\ me.op = "filter"
    /\ \/ /\ me.pc = "start"
          /\ procs' =
                IF thresholdIsZero(me.threshold)
                THEN Finished(p, Outcome(me.response, FALSE, <<>>, <<>>, <<>>))
                ELSE IF \E i \in DOMAIN me.response : getDocID(me.response[i]).err # <<>>
                THEN LET i == CHOOSE k \in DOMAIN me.response :
                                 /\ getDocID(me.response[k]).err # <<>>
                                 /\ \A j \in 1..(k-1) : getDocID(me.response[j]).err = <<>>
                     IN Finished(p, Outcome(<<>>, TRUE,
                                    <<"error retrieving DocID">> \o getDocID(me.response[i]).err,
                                    <<"getDocID">>, <<>>))
                ELSE [procs EXCEPT ![p].pc = "extract", ![p].byId = documentsById(me.response)]
       \/ /\ me.pc = "extract"
          /\ procs' =
                LET view == viewNameOf(me.query)
                IN IF view.err # <<>>
                   THEN Finished(p, Outcome(<<>>, TRUE,
                                   <<"error extracting view name from query">> \o view.err,
                                   <<"getDocID", "extractCollectionNameFromQuery">>, <<>>))
                   ELSE [procs EXCEPT ![p].pc = "query", ![p].view = view.name]
       \/ /\ me.pc = "query"
          /\ \E storeOk \in BOOLEAN :
                procs' =
                   LET got == QueryAttestationRecords(records, me.view, DOMAIN me.byId, storeOk)
                   IN IF got.err # <<>>
                      THEN Finished(p, Outcome(<<>>, TRUE,
                                      <<"error querying attestation records">> \o got.err,
                                      <<"getDocID", "extractCollectionNameFromQuery", "QueryArray">>, <<>>))
                      ELSE [procs EXCEPT ![p].pc = "count", ![p].rows = got.rows]
       \/ /\ me.pc = "count"
          /\ procs' = [[procs EXCEPT ![scratchOf(p)].sets = docIDToCIDSet(me.rows)]
                          EXCEPT ![p].pc = "select"]
       \/ /\ me.pc = "select"
          /\ \E items \in newResponses(me.byId, procs[scratchOf(p)].sets, me.threshold) :
                procs' = Finished(p, Outcome(items, FALSE, <<>>,
                                     <<"getDocID", "extractCollectionNameFromQuery", "QueryArray">>,
                                     attestationCounts(procs[scratchOf(p)].sets)))
    /\ UNCHANGED <<config, node, keyring, startups, previous, ctx, exec, collection, records, pc, call, limit, attempts, outcome>>

\* the next attempt of a caller's search invocation
SearchStep(p) ==
    LET me == procs[p] IN
    /\ me.op = "search"
    /\ me.pc = "attempt"
    /\ \E docsOk \in BOOLEAN, storeOk \in BOOLEAN :
          LET got == QueryDocuments(collection, me.query, me.limit, docsOk)
          IN \E f \in IF got.err # <<>> THEN {NoOutcome}
                       ELSE filterMinimumIndexerAttestations(records, got.rows, me.threshold,
                                                             me.query, storeOk) :
                LET verdict == attemptVerdict(me.query, got, f, me.limit)
                IN procs' =
                      CASE verdict = "error" ->
                              Finished(p, Outcome(<<ZeroDoc>>, FALSE,
                                          IF got.err # <<>> THEN got.err ELSE f.err, <<>>, <<>>))
                        [] verdict = "found" ->
                              Finished(p, Outcome(<<f.items[1]>>, FALSE, <<>>, <<>>, <<>>))
                        [] verdict = "fail" ->
                              Finished(p, Outcome(<<ZeroDoc>>, FALSE, failError(me.query), <<>>, <<>>))
                        [] verdict = "retry" ->
                              [procs EXCEPT ![p].limit = nextLimit(me.limit)]
    /\ UNCHANGED <<config, node, keyring, startups, previous, ctx, exec, collection, records, pc, call, limit, attempts, outcome>>

\* the caller takes its result
Finish(p) ==
    /\ procs[p].pc = "done"
    /\ procs' = [procs EXCEPT ![p] = IdleProc]
    /\ UNCHANGED <<config, node, keyring, startups, previous, ctx, exec, collection, records, pc, call, limit, attempts, outcome>>

NextConcurrent ==
    \E p \in Procs :
        \/ Invoke(p)
        \/ FilterStep(p)
        \/ SearchStep(p)
        \/ Finish(p)

SpecConcurrent == InitConcurrent /\ [][NextConcurrent]_vars

\* ------------------------------------------------- keys across restarts
\* One store path, started several times with the same keyring secret. The
\* directory is new (TestKeyPersistence), or holds what an earlier run or an
\* earlier version left there: an identity in the old format, an entry that
\* does not decrypt (TestKeyLoadingWithCorruptedFile), a peer key of the wrong
\* length.

StartIdentityEntries == {NoEntry, CorruptEntry, RawEntry(8, FALSE), RawEntry(9, TRUE)}
StartPeerEntries == {NoEntry, PeerEntry(7, FALSE)}
Secrets == {<<>>, <<"s">>}

InitKeys ==
    /\ collection = <<>>
    /\ records = <<>>
    /\ pc = "idle"
    /\ call = NoCall
    /\ limit = 0
    /\ attempts = <<>>
    /\ outcome = NoOutcome
    /\ config = NilConfig
    /\ node = NoNode
    /\ procs = [p \in Procs |-> IdleProc]
    /\ previous = NoPrevious
    /\ ctx = "active"
    /\ exec = NoExec
    /\ \E secret \in Secrets, id \in StartIdentityEntries, peer \in StartPeerEntries :
          keyring = [secret |-> secret, identity |-> id, peer |-> peer, next |-> 1]
    /\ startups = <<>>

\* one start of the process: a call of getOrCreateNodeIdentity
GetOrCreateNodeIdentity ==
    /\ Len(startups) < MaxStartups
    /\ \E readIdOk, writeIdOk, readPeerOk, writePeerOk \in BOOLEAN :
          LET r == getOrCreateNodeIdentity(keyring, readIdOk, writeIdOk, readPeerOk, writePeerOk) IN
          /\ keyring' = r.keyring
          /\ startups' = Append(startups,
                [keys |-> r.keys, err |-> r.err,
                 before |-> [identity |-> keyring.identity, peer |-> keyring.peer],
                 after |-> [identity |-> r.keyring.identity, peer |-> r.keyring.peer]])
    /\ UNCHANGED <<config, node, procs, previous, ctx, exec, collection, records, pc, call, limit, attempts, outcome>>

NextKeys == GetOrCreateNodeIdentity

SpecKeys == InitKeys /\ [][NextKeys]_vars

\* ------------------------------------------------- converting bootstrap peers
\* Lists of bootstrap strings are converted to peers, and peers back to
\* bootstrap strings.

\* how many bootstrap strings a list holds
MaxPeers == 2

PeerAddresses == {<<>>, <<"a">>, <<"a", "/", "p", "2", "p">>}
PeerIDs == {<<>>, <<"i">>, <<"p", "2", "p", "/", "i">>}

\* one address, the separator, one peer id
WellFormedBootstrap == {a \o P2PSeparator \o id : a \in PeerAddresses, id \in PeerIDs}

\* no separator, or more than one
MalformedBootstrap ==
    {<<>>, <<"a">>, <<"a", "/", "p", "2", "p">>,
     <<"a">> \o P2PSeparator \o <<"i">> \o P2PSeparator \o <<"x">>}

BootstrapStrings == WellFormedBootstrap \cup MalformedBootstrap

BootstrapLists == UNION {[1..n -> BootstrapStrings] : n \in 0..MaxPeers}

\* peers as TestPeersIntoBootstrap builds them
PeerInfos ==
    {PeerInfo(as, id) : as \in {<<>>, <<<<"a">>>>, <<<<"a">>, <<"b">>>>}, id \in {<<>>, <<"i">>}}

PeerLists == UNION {[1..n -> PeerInfos] : n \in 0..MaxPeers}

\* a call of bootstrapIntoPeers
BootstrapIntoPeers ==
    /\ pc = "idle"
    /\ \E input \in BootstrapLists :
          LET r == bootstrapIntoPeers(input) IN
          /\ call' = [op |-> "bootstrapIntoPeers", input |-> input]
          /\ outcome' = Outcome(r.items, FALSE, r.errors, <<>>, <<>>)
    /\ pc' = "done"
    /\ UNCHANGED <<config, node, keyring, startups, procs, previous, ctx, exec, collection, records, limit, attempts>>

\* a call of PeersIntoBootstrap, on peers as given or on the peers the
\* preceding call of bootstrapIntoPeers returned
PeersIntoBootstrapCall ==
    /\ \/ /\ pc = "idle"
          /\ \E input \in PeerLists :
                call' = [op |-> "PeersIntoBootstrap", input |-> input, original |-> <<>>, roundTrip |-> FALSE]
       \/ /\ pc = "done"
          /\ call.op = "bootstrapIntoPeers"
          /\ outcome.err = <<>>
          /\ call' = [op |-> "PeersIntoBootstrap", input |-> outcome.items, original |-> call.input,
                   roundTrip |-> TRUE]
    /\ LET r == PeersIntoBootstrap(call'.input) IN
          outcome' = Outcome(r.items, FALSE, r.errors, <<>>, <<>>)
    /\ pc' = "done"
    /\ UNCHANGED <<config, node, keyring, startups, procs, previous, ctx, exec, collection, records, limit, attempts>>

NextPeers ==
    \/ BootstrapIntoPeers
    \/ PeersIntoBootstrapCall
    \/ Return

SpecPeers == Init /\ [][NextPeers]_vars

\* ------------------------------------------------- queries and their wrapping
\* QuerySingle and QueryArray wrap the query they are given before they send
\* it. The texts: white space, an operation keyword in some letter case or
\* none, white space or none, and a selection in braces or without.

LeadingGaps == {<<>>, <<" ", " ", " ">>, <<"\n", "\t", "\t">>}
OperationKeywords ==
    {<<"q", "u", "e", "r", "y">>, <<"Q", "U", "E", "R", "Y">>, <<"Q", "u", "e", "r", "y">>,
     <<"m", "u", "t", "a", "t", "i", "o", "n">>, <<"M", "u", "t", "a", "t", "i", "o", "n">>,
     <<"s", "u", "b", "s", "c", "r", "i", "p", "t", "i", "o", "n">>,
     <<"S", "U", "B", "S", "C", "R", "I", "P", "T", "I", "O", "N">>}
GapsBeforeSelection == {<<>>, <<" ">>, <<"\n">>, <<"\t">>}
BracedSelections ==
    {<<"{", " ", "U", "s", "e", "r", " ", "{", " ", "n", "a", "m", "e", " ", "}", " ", "}">>,
     <<"{", "U", "s", "e", "r", "(", "l", "i", "m", "i", "t", ":", " ", "1", ")", " ", "{", " ", "n", "a", "m", "e", " ", "}", "}">>}
BareSelections ==
    {<<"U", "s", "e", "r", " ", "{", " ", "n", "a", "m", "e", " ", "}">>,
     <<"U", "s", "e", "r", "(", "l", "i", "m", "i", "t", ":", " ", "1", ")", " ", "{", " ", "n", "a", "m", "e", " ", "}">>,
     <<"q", "u", "e", "r", "i", "e", "s", " ", "{", " ", "n", "a", "m", "e", " ", "}">>}
TrailingGaps == {<<>>, <<"\n">>}

\* a text that begins, after white space, with an operation keyword
OperationCases ==
    {[query |-> g0 \o kw \o g1 \o sel \o g2, keyword |-> kw, gap |-> g1, content |-> sel] :
        g0 \in LeadingGaps, kw \in OperationKeywords, g1 \in GapsBeforeSelection,
        sel \in BracedSelections, g2 \in TrailingGaps}
    \cup {[query |-> g0 \o kw, keyword |-> kw, gap |-> <<>>, content |-> <<>>] :
        g0 \in LeadingGaps, kw \in OperationKeywords}

\* a text without an operation keyword
SelectionCases ==
    {[query |-> g0 \o sel \o g2, keyword |-> <<>>, gap |-> <<>>, content |-> sel] :
        g0 \in LeadingGaps, sel \in BracedSelections \cup BareSelections \cup {<<>>},
        g2 \in TrailingGaps}

\* a call of QuerySingle or QueryArray, up to the text it sends
QueryWrapped(op) ==
    /\ pc = "idle"
    /\ \E c \in OperationCases \cup SelectionCases :
          /\ call' = [op |-> op, query |-> c.query, shape |-> c]
          /\ outcome' = Outcome(<<wrapQueryIfNeeded(c.query)>>, FALSE, <<>>, <<>>, <<>>)
    /\ pc' = "done"
    /\ UNCHANGED <<config, node, keyring, startups, procs, previous, ctx, exec, collection, records, limit, attempts>>

NextWrap ==
    \/ QueryWrapped("QuerySingle")
    \/ QueryWrapped("QueryArray")
    \/ Return

SpecWrap == Init /\ [][NextWrap]_vars

\* ------------------------------------------------- responses of any type
\* The filter is generic in T: a response may hold values without a DocID
\* field, and with T an interface type such values stand next to documents.

NoIdDoc == [Name |-> "n"]
AnyResponses ==
    {<<>>, <<Doc("d1", "a")>>, <<Doc("d1", "a"), Doc("d2", "b")>>, <<NoIdDoc>>,
     <<Doc("d1", "a"), NoIdDoc>>, <<NoIdDoc, Doc("d2", "b")>>, <<NoIdDoc, NoIdDoc>>}

\* a call of filterMinimumIndexerAttestations with such a response
FilterAny ==
    /\ pc = "idle"
    /\ \E response \in AnyResponses, t \in Thresholds, q \in FilterQueries, storeOk \in BOOLEAN :
          /\ call' = [op |-> "filter", response |-> response, threshold |-> t, query |-> q]
          /\ outcome' \in filterMinimumIndexerAttestations(records, response, t, q, storeOk)
    /\ pc' = "done"
    /\ UNCHANGED <<config, node, keyring, startups, procs, previous, ctx, exec, collection, records, limit, attempts>>

NextAny ==
    \/ createAttestationRecord(MaxRecords, DocIDs)
    \/ FilterAny
    \/ Return

SpecAny == Init /\ [][NextAny]_vars

\* ------------------------------------------------- one input, several thresholds
\* A caller filters the same response with the same query again, with
\* another threshold, over a store that has not changed.

ComparedStores ==
    {<<>>,
     <<[attested_doc |-> "d1", CIDs |-> <<"x", "y">>], [attested_doc |-> "d2", CIDs |-> <<"x">>]>>,
     <<[attested_doc |-> "d1", CIDs |-> <<"x", "y">>], [attested_doc |-> "d1", CIDs |-> <<"x", "z">>],
       [attested_doc |-> "d2", CIDs |-> <<"x", "y">>]>>}
ComparedResponses ==
    {<<>>, <<Doc("d1", "a"), Doc("d2", "b")>>, <<Doc("d2", "b"), Doc("d1", "a"), Doc("d1", "c")>>}
ComparedQueries == {QueryUser, QueryInvalid}

InitCompared ==
    /\ collection = <<>>
    /\ records \in ComparedStores
    /\ pc = "idle"
    /\ call = NoCall
    /\ limit = 0
    /\ attempts = <<>>
    /\ outcome = NoOutcome
    /\ config = NilConfig
    /\ node = NoNode
    /\ keyring = NoKeyring
    /\ startups = <<>>
    /\ procs = [p \in Procs |-> IdleProc]
    /\ previous = NoPrevious
    /\ ctx = "active"
    /\ exec = NoExec

\* a call of filterMinimumIndexerAttestations: the first with any response
\* and query, a later one with those of the call before
FilterCompared ==
    /\ pc = "idle"
    /\ \E response \in ComparedResponses, q \in ComparedQueries, t \in Thresholds, storeOk \in BOOLEAN :
          /\ previous.call.op = "filter"
             => response = previous.call.response /\ q = previous.call.query
          /\ call' = [op |-> "filter", response |-> response, threshold |-> t, query |-> q]
          /\ outcome' \in filterMinimumIndexerAttestations(records, response, t, q, storeOk)
    /\ pc' = "done"
    /\ UNCHANGED <<config, node, keyring, startups, procs, ctx, exec, previous, collection, records, limit, attempts>>

NextCompared ==
    \/ FilterCompared
    \/ KeepResult

SpecCompared == InitCompared /\ [][NextCompared]_vars

\* ------------------------------------------------- the rows of the answer
\* The filter takes the rows defra.QueryArray returns as they come: the
\* answer of the attestation query is any list of rows, or a failure.

AnswerRows ==
    {[attested_doc |-> "d1", CIDs |-> <<"x", "y">>],
     [attested_doc |-> "d2", CIDs |-> <<"x">>],
     [attested_doc |-> "d9", CIDs |-> <<"x", "y">>]}
Answers ==
    {[rows |-> rows, err |-> <<>>] : rows \in UNION {[1..n -> AnswerRows] : n \in 0..2}}
    \cup {[rows |-> <<>>, err |-> <<"store failure">>]}
AnsweredResponses == {<<>>, <<Doc("d1", "a")>>, <<Doc("d1", "a"), Doc("d2", "b")>>}

\* a call of filterMinimumIndexerAttestations whose query is answered with got
FilterAnswered ==
    /\ pc = "idle"
    /\ \E response \in AnsweredResponses, t \in Thresholds, q \in ComparedQueries, got \in Answers :
          /\ call' = [op |-> "filter", response |-> response, threshold |-> t, query |-> q,
                      answer |-> got]
          /\ outcome' \in filterMinimumIndexerAttestationsGiven(got, response, t, q)
    /\ pc' = "done"
    /\ UNCHANGED <<config, node, keyring, startups, procs, previous, ctx, exec, collection, records, limit, attempts>>

NextAnswered ==
    \/ FilterAnswered
    \/ Return

SpecAnswered == Init /\ [][NextAnswered]_vars

\* ------------------------------------------------- starting a node
\* bootstrap strings with one separator, the last one with an empty peer id
StartWellFormed ==
    {<<"a">> \o P2PSeparator \o <<"i">>, <<"a">> \o P2PSeparator}

\* no separator, and two separators
StartMalformed ==
    {<<"a">>, <<"a">> \o P2PSeparator \o <<"i">> \o P2PSeparator \o <<"x">>}

StartStrings == StartWellFormed \cup StartMalformed

StartLists == UNION {[1..n -> StartStrings] : n \in 0..MaxPeers}

\* *config.Config: nil, or a Config with its keyring secret and bootstrap peers
NodeConfigs ==
    {[isNil |-> TRUE]} \cup
    {[isNil |-> FALSE, KeyringSecret |-> s, BootstrapPeers |-> l] :
        s \in {<<>>, <<"s">>}, l \in StartLists}

\* a return with an error
Failed(n, msg) == [n EXCEPT !.pc = "returned", !.err = <<msg>>]

\* a return with an error after "defer defraNode.Close(ctx)"
FailedClosing(n, msg) ==
    [n EXCEPT !.pc = "returned", !.err = <<msg>>, !.state = "closed",
              !.steps = Append(@, "Close")]

\* StartDefraInstance up to the start of the node
StartDefraInstance ==
    /\ node.pc = "idle"
    /\ \E cfg \in NodeConfigs, identityOk \in BOOLEAN, ipOk \in BOOLEAN,
          newOk \in BOOLEAN, startOk \in BOOLEAN :
          node' =
            IF cfg.isNil THEN Failed(node, "config cannot be nil")
            ELSE LET configured == [node EXCEPT !.bootstrap = cfg.BootstrapPeers \o requiredPeers] IN
            IF cfg.KeyringSecret = <<>>
            THEN Failed(configured, "keyring secret is required for persistent key storage")
            ELSE IF ~identityOk
            THEN Failed(configured, "error getting or creating identity and peer key")
            ELSE IF ~ipOk
            THEN Failed(configured, "failed to get LAN IP address")
            ELSE IF ~newOk
            THEN Failed([configured EXCEPT !.steps = Append(@, "New")],
                        "failed to create defra node")
            ELSE LET created == [configured EXCEPT !.state = "created",
                                                   !.steps = Append(@, "New")] IN
            IF ~startOk
            THEN Failed([created EXCEPT !.steps = Append(@, "Start")],
                        "failed to start defra node")
            ELSE [created EXCEPT !.pc = "peers", !.state = "running",
                                 !.steps = Append(@, "Start")]
    /\ UNCHANGED <<config, keyring, startups, procs, previous, ctx, exec, collection, records, pc, call, limit, attempts, outcome>>

\* "Connect to bootstrap peers"
ConnectToBootstrapPeers ==
    /\ node.pc = "peers"
    /\ LET r == bootstrapIntoPeers(node.bootstrap)
           peers == r.items
           translated ==
               [node EXCEPT !.peers = peers,
                            !.logged = @ \o [i \in 1..Len(r.errors) |->
                                                "Error translating bootstrapped peers"],
                            !.steps = @ \o <<"bootstrapIntoPeers", "connectToPeers">>]
       IN  \E connected \in [1..Len(peers) -> BOOLEAN] :
              LET errors == connectToPeers(peers, connected)
                  tried == [translated EXCEPT !.connected = connected]
              IN  node' =
                    IF Len(errors) > 0
                    THEN IF failedToConnectToAnyPeers(errors, peers)
                         THEN FailedClosing(tried, "failed to connect to any peers")
                         ELSE [tried EXCEPT !.pc = "schema",
                                            !.logged = Append(@, "Failed to connect to peers")]
                    ELSE [tried EXCEPT !.pc = "schema"]
    /\ UNCHANGED <<config, keyring, startups, procs, previous, ctx, exec, collection, records, pc, call, limit, attempts, outcome>>

\* schemaApplier.ApplySchema and what StartDefraInstance makes of its error
ApplySchema ==
    /\ node.pc = "schema"
    /\ \E err \in {<<>>, <<"collection already exists">>, <<"schema is invalid">>} :
          LET applied == [node EXCEPT !.steps = Append(@, "ApplySchema")] IN
          node' =
            IF err # <<>>
            THEN IF err = <<"collection already exists">>
                 THEN [applied EXCEPT !.pc = "collections",
                                      !.logged = Append(@, "Failed to apply schema, proceeding")]
                 ELSE FailedClosing(applied, "failed to apply schema")
            ELSE [applied EXCEPT !.pc = "collections"]
    /\ UNCHANGED <<config, keyring, startups, procs, previous, ctx, exec, collection, records, pc, call, limit, attempts, outcome>>

\* DB.AddP2PCollections and the return of the node
AddP2PCollections ==
    /\ node.pc = "collections"
    /\ \E ok \in BOOLEAN :
          LET added == [node EXCEPT !.steps = Append(@, "AddP2PCollections")] IN
          node' =
            IF ~ok
            THEN Failed(added, "failed to add collections of interest")
            ELSE [added EXCEPT !.pc = "returned", !.returned = TRUE]
    /\ UNCHANGED <<config, keyring, startups, procs, previous, ctx, exec, collection, records, pc, call, limit, attempts, outcome>>

NextStart ==
    \/ StartDefraInstance
    \/ ConnectToBootstrapPeers
    \/ ApplySchema
    \/ AddP2PCollections

SpecStart == Init /\ [][NextStart]_vars

\* ------------------------------------------------------------------ claims

\* the attestation count of a document as the data model defines it: the
\* number of distinct CIDs in the union of the CIDs lists of the stored
\* records whose attested_doc is the document's id
AttestationCount(stored, id) ==
    Cardinality(UNION {Range(stored[k].CIDs) : k \in {k \in DOMAIN stored : stored[k].attested_doc = id}})

DistinctDocIDs(response) ==
    \A i, j \in DOMAIN response : response[i].DocID = response[j].DocID => i = j

NoDuplicates(items) == \A i, j \in DOMAIN items : items[i] = items[j] => i = j

StoreFailed(o) == o.err # <<>> /\ o.err[Len(o.err)] = "store failure"

FilterDone == pc = "done" /\ call.op = "filter"

\* C1: for a response with pairwise distinct DocIDs, a threshold >= 1 and a
\* well-formed query of a view the store holds attestations for, the filter
\* returns (unless the store itself fails) without error exactly the input
\* documents whose attestation count is >= the threshold, each once; a
\* document without any attestation record is never among them.
C1_FilterReturnsExactlyQualifying ==
    (/\ FilterDone
     /\ call.threshold >= 1
     /\ call.query = QueryUser
     /\ DistinctDocIDs(call.response)
     /\ ~StoreFailed(outcome))
    => /\ outcome.err = <<>>
       /\ ~outcome.isNil
       /\ NoDuplicates(outcome.items)
       /\ Range(outcome.items) =
            {call.response[i] : i \in {i \in DOMAIN call.response :
                AttestationCount(records, call.response[i].DocID) >= call.threshold}}
       /\ \A i \in DOMAIN outcome.items :
            \E k \in DOMAIN records : records[k].attested_doc = outcome.items[i].DocID

\* C1 witness: two documents in, the attested one comes back and the one
\* without any attestation record does not.
C1_Witness ==
    /\ FilterDone
    /\ call.threshold = 2
    /\ call.query = QueryUser
    /\ call.response = <<Doc("d2", "b"), Doc("d1", "a")>>
    /\ \A k \in DOMAIN records : records[k].attested_doc = "d1"
    /\ outcome.err = <<>>
    /\ outcome.items = <<Doc("d1", "a")>>

\* C2: with threshold 0 the filter returns its input unchanged and without
\* error, for every query (a malformed one too) and every store content, and
\* takes no step at all: no view name extraction, no store query.
C2_ZeroThresholdReturnsInput ==
    (FilterDone /\ call.threshold = 0)
    => /\ outcome.items = call.response
       /\ ~outcome.isNil
       /\ outcome.err = <<>>
       /\ outcome.steps = <<>>

\* C2 witness: threshold 0 with the malformed query, a non-empty input and
\* a non-empty store.
C2_Witness ==
    /\ FilterDone
    /\ call.threshold = 0
    /\ call.query = QueryInvalid
    /\ Len(call.response) = 2
    /\ records # <<>>
    /\ outcome.items = call.response

\* the rows the filter of the finished call fetched
FetchedRows ==
    SelectSeq(records, LAMBDA rec : rec.attested_doc \in {call.response[i].DocID : i \in DOMAIN call.response})

IndexPermutations(n) == {p \in [1..n -> 1..n] : \A i, j \in 1..n : p[i] = p[j] => i = j}

\* C3: the count the filter computes for a document is the cardinality of
\* the union of the CIDs of that document's records: the same for every
\* order of the records, with a CID repeated inside a record or across the
\* records of the document counted once, and CIDs of another document not
\* counted.
C3_CountIsUnionCardinality ==
    (FilterDone /\ "QueryArray" \in Range(outcome.steps) /\ outcome.err = <<>>)
    => /\ \A d \in DOMAIN outcome.counts :
             outcome.counts[d] = AttestationCount(records, d)
       /\ \A p \in IndexPermutations(Len(FetchedRows)) :
             attestationCounts(docIDToCIDSet([i \in 1..Len(FetchedRows) |-> FetchedRows[p[i]]]))
                = outcome.counts

\* C3 witness: records {x,y} and {x,z} of one document give 3.
C3_Witness ==
    /\ FilterDone
    /\ records = <<[attested_doc |-> "d1", CIDs |-> <<"x", "y">>],
                   [attested_doc |-> "d1", CIDs |-> <<"x", "z">>]>>
    /\ "d1" \in DOMAIN outcome.counts
    /\ outcome.counts["d1"] = 3

\* C10: with a threshold >= 1 and a query the view name cannot be extracted
\* from, the filter returns a nil result and an error "error extracting view
\* name ..." that wraps the parse error, and issues no store query.
C10_ExtractionFailureIsReturned ==
    (/\ FilterDone
     /\ call.threshold >= 1
     /\ call.query = QueryInvalid)
    => /\ outcome.isNil
       /\ outcome.items = <<>>
       /\ outcome.err = <<"error extracting view name from query", "no opening brace found in query">>
       /\ "QueryArray" \notin Range(outcome.steps)

\* C10 witness: the call of the test, documents in, "invalid query".
C10_Witness ==
    /\ FilterDone
    /\ call.threshold = 1
    /\ call.query = QueryInvalid
    /\ call.response # <<>>
    /\ records # <<>>
    /\ outcome.isNil
    /\ outcome.err # <<>>

SearchCall == call.op = "search"
SearchDone == pc = "done" /\ SearchCall

Qualifies(doc, t) == AttestationCount(records, doc.DocID) >= t
SomeQualifies == \E i \in DOMAIN collection : Qualifies(collection[i], call.threshold)
QueryFailed == \E i \in DOMAIN attempts : attempts[i].failed # "none"
Count(seq, x) == Cardinality({i \in DOMAIN seq : seq[i] = x})

\* C4: adaptive search completeness. A search with a query without a limit
\* and a threshold >= 1, over a collection in which some document has that
\* many attestations, ends (unless the store fails a query) with success and a
\* document that meets the threshold, wherever that document lies in the
\* store's order.
C4_AdaptiveSearchFinds ==
    [] ((/\ pc = "searching"
         /\ SearchCall
         /\ call.query = QueryUser
         /\ call.threshold >= 1
         /\ SomeQualifies)
        => <> (/\ pc = "done"
               /\ \/ QueryFailed
                  \/ /\ outcome.err = <<>>
                     /\ Qualifies(outcome.items[1], call.threshold)))

\* C4 witness: the only qualifying document is the second of the store's
\* order and is found on the second attempt, after one expansion.
C4_Witness ==
    /\ SearchDone
    /\ call.query = QueryUser
    /\ call.threshold = 2
    /\ Len(collection) = 2
    /\ ~Qualifies(collection[1], 2)
    /\ Len(attempts) = 2
    /\ outcome.err = <<>>
    /\ outcome.items = <<collection[2]>>

\* C5: adaptive search exhaustion. A search with a query without a limit over
\* a collection in which no document meets the threshold ends, and (unless
\* the store fails a query) with the zero document and the error "no results
\* found that meet the minimum attestation threshold ... after querying
\* entire collection".
C5_AdaptiveSearchExhausts ==
    [] ((/\ pc = "searching"
         /\ SearchCall
         /\ call.query = QueryUser
         /\ ~SomeQualifies)
        => <> (/\ pc = "done"
               /\ outcome.items = <<ZeroDoc>>
               /\ \/ QueryFailed
                  \/ outcome.err = <<NoQualifyingResult, "after querying entire collection">>))

\* C5 witness: two documents below the threshold; the third attempt, with
\* limit 4, gets 2 rows and ends the search.
C5_Witness ==
    /\ SearchDone
    /\ call.query = QueryUser
    /\ call.threshold = 2
    /\ Len(collection) = 2
    /\ Len(attempts) = 3
    /\ attempts[3].returned < attempts[3].limit
    /\ outcome.err = ErrEntireCollection

\* the limit written in the queries that carry one
DeclaredLimit(q) == IF q = QueryLimit1 THEN 1 ELSE 2
CarriesLimit(q) == q \in {QueryLimit1, QueryLimit2}

\* the documents a query with the limit n returns
Window(n) == SubSeq(collection, 1, Min(n, Len(collection)))

C7_ExplicitLimitIsEnlarged ==
    (/\ SearchDone
     /\ call.query = QueryLimit1
     /\ call.threshold >= 1
     /\ Len(collection) > DeclaredLimit(call.query)
     /\ ~QueryFailed)
    => IF SomeQualifies
       THEN outcome.err = <<>> /\ Qualifies(outcome.items[1], call.threshold)
       ELSE "after querying entire collection" \in Range(outcome.err)

\* C8: search soundness. A search that returns without error for a
\* threshold >= 1 returns a document of the collection whose attestation
\* count meets the threshold; a search that returns an error returns the
\* zero document.
C8_SearchIsSound ==
    SearchDone
    => /\ Len(outcome.items) = 1
       /\ (outcome.err = <<>> /\ call.threshold >= 1)
            => /\ outcome.items[1] \in Range(collection)
               /\ Qualifies(outcome.items[1], call.threshold)
       /\ outcome.err # <<>> => outcome.items = <<ZeroDoc>>

\* C8 witness: the first document of the store's order has one attestation,
\* the threshold is 2, and the second document is the one returned.
C8_Witness ==
    /\ SearchDone
    /\ call.threshold = 2
    /\ Len(collection) = 2
    /\ AttestationCount(records, collection[1].DocID) = 1
    /\ outcome.err = <<>>
    /\ outcome.items = <<StoreDocs[2]>>

FetchDone == pc = "done" /\ call.op = "fetch"

\* C11: fetching attestation records for an empty set of document ids
\* returns an empty result without error and sends no query to the store,
\* both in GetAttestationRecords and in the filter called with an empty
\* response.
C11_EmptyIdSetShortCircuits ==
    /\ (FetchDone /\ call.ids = <<>>)
         => /\ outcome.err = <<>>
            /\ outcome.items = <<>>
            /\ "QueryArray" \notin Range(outcome.steps)
    /\ (FilterDone /\ call.threshold >= 1 /\ call.response = <<>> /\ call.query = QueryUser)
         => /\ outcome.err = <<>>
            /\ outcome.items = <<>>
            /\ "QueryArray" \notin Range(outcome.steps)

ConfigRead == pc = "done" /\ call.op = "GetMinimumAttestations"
AllDigits(s) == s # <<>> /\ \A i \in DOMAIN s : s[i] \in Digits

\* C13: GetMinimumAttestations returns N when the setting is the decimal
\* text of the unsigned integer N, and 0 for a nil config, an empty setting
\* and every setting that is not all decimal digits.
C13_InvalidSettingDisablesFiltering ==
    ConfigRead
    => outcome.items[1] =
          IF ~config.isNil /\ AllDigits(config.MinimumAttestations)
          THEN parseDigits(config.MinimumAttestations)
          ELSE 0

ExtractDone == pc = "done" /\ call.op = "extractCollectionNameFromQuery"

\* C14: for every well-formed query, with or without operation keyword,
\* alias and argument list and with any white space between the tokens,
\* extractCollectionNameFromQuery returns the name of the collection as it is
\* written and no error.
C14_NameOfWellFormedQuery ==
    (ExtractDone /\ call.shape.wellFormed)
    => /\ outcome.err = <<>>
       /\ outcome.items = <<call.shape.name>>

ErrEmptyQuery == <<"query string is empty">>
ErrNoOpeningBrace == <<"no opening brace found in query">>
ErrNoIdentifierFound == <<"could not extract collection name from query">>

\* the error kind the cause of a malformed query calls for
ExpectedKind(q) ==
    IF TrimSpace(q) = <<>> THEN ErrEmptyQuery
    ELSE IF "{" \notin Range(q) THEN ErrNoOpeningBrace
    ELSE ErrNoIdentifierFound

\* C15: on every malformed input extractCollectionNameFromQuery returns an
\* empty name and an error of the kind of the cause: EmptyQuery for an input
\* that is empty after trimming, NoOpeningBrace for one without "{",
\* NoIdentifierFound for one in which no identifier is found.
C15_MalformedQueryErrorKind ==
    (ExtractDone /\ ~call.shape.wellFormed)
    => /\ outcome.items = <<(<<>>)>>
       /\ outcome.err = ExpectedKind(call.query)

ExtractLimitDone == pc = "done" /\ call.op = "extractLimitValue"
HasLimitDone == pc = "done" /\ call.op = "hasLimitParameter"

\* C16: for a query with a limit key, in any letter case and with any white
\* space around the colon and the digits, followed by the integer literal N,
\* extractLimitValue returns (N, true); for a query without a limit key, or
\* with the key and no integer after it, it returns (0, false).
C16_LimitValueIsExtracted ==
    ExtractLimitDone
    => outcome.items =
          IF call.shape.hasKey /\ call.shape.value.present
          THEN <<call.shape.value.value, TRUE>>
          ELSE <<0, FALSE>>

\* C16 witness: `LIMIT : 10` after a filter argument gives (10, true).
C16_Witness ==
    /\ ExtractLimitDone
    /\ call.shape.hasKey
    /\ call.shape.key = <<"L", "I", "M", "I", "T">>
    /\ call.shape.gap = <<" ">>
    /\ call.shape.value.text = <<"1", "0">>
    /\ outcome.items = <<10, TRUE>>

\* C17: hasLimitParameter returns true for every query with a limit key in
\* argument position, in any letter case, and false for every query without
\* one, also when the word limit occurs in a string literal, in a longer
\* identifier or as a selected field.
C17_LimitKeyIsDetected ==
    HasLimitDone => outcome.items = <<call.shape.hasKey>>

\* C17 witness: the word limit in a string literal only: false.
C17_Witness ==
    /\ HasLimitDone
    /\ ~call.shape.hasKey
    /\ \E i \in 1..(Len(call.query) - 6) :
          SubSeq(call.query, i, i + 6) = <<"\"", "l", "i", "m", "i", "t", "\"">>
    /\ outcome.items = <<FALSE>>

\* C18: while the store executes the query of an operation, a cancellation
\* of the context the caller passed to the operation is seen by the store:
\* the context ExecRequest runs with is done once the caller has canceled.
C18_CancellationReachesStore ==
    (pc = "executing" /\ exec.running /\ ctx = "canceled")
    => ContextDone(exec.ctx, ctx, exec.expired)

\* the documents of a response that the store content gives the threshold
QualifyingIn(stored, response, t) ==
    {response[i] : i \in {i \in DOMAIN response : AttestationCount(stored, response[i].DocID) >= t}}

\* C19: whatever insertions and invocations came before, the result of an
\* invocation is the one the records now in the store give; a document the
\* invocation before did not return is returned as soon as its count of
\* distinct CIDs has reached the threshold.
C19_EveryInvocationRecomputes ==
    (FilterDone /\ ~StoreFailed(outcome))
    => /\ outcome.err = <<>>
       /\ Range(outcome.items) = QualifyingIn(records, call.response, call.threshold)
       /\ \A d \in DOMAIN outcome.counts : outcome.counts[d] = AttestationCount(records, d)
       /\ (previous.call.op = "filter" /\ previous.outcome.err = <<>>)
            => \A i \in DOMAIN call.response :
                  (/\ call.response[i] \notin Range(previous.outcome.items)
                   /\ AttestationCount(records, call.response[i].DocID) >= call.threshold)
                  => call.response[i] \in Range(outcome.items)

\* C19 witness: threshold 2; the invocation before found d1 with one CID and
\* did not return it, a record was added, this one returns it.
C19_Witness ==
    /\ FilterDone
    /\ call.threshold = 2
    /\ previous.call.op = "filter"
    /\ previous.call.threshold = 2
    /\ previous.outcome.err = <<>>
    /\ Doc("d1", "a") \notin Range(previous.outcome.items)
    /\ AttestationCount(previous.store, "d1") = 1
    /\ Len(records) > Len(previous.store)
    /\ outcome.err = <<>>
    /\ Doc("d1", "a") \in Range(outcome.items)

\* C20: every invocation that ends while others run against the same store
\* returns a result it can return when it runs alone: a filter, an outcome of
\* the filter applied to the store in one piece; a search, a result of the
\* search run on its own.
C20_ConcurrentInvocationsAgree ==
    \A p \in Procs :
        procs[p].pc = "done"
        => LET me == procs[p] IN
           IF me.op = "filter"
           THEN \E storeOk \in BOOLEAN :
                   me.result \in filterMinimumIndexerAttestations(records, me.response,
                                     me.threshold, me.query, storeOk)
           ELSE [items |-> me.result.items, err |-> me.result.err]
                   \in QuerySingleResults(collection, records, me.query, me.threshold,
                                          firstLimit(me.query))

\* C20 witness: two filter invocations that overlapped, with different
\* responses and thresholds, both at their end, each with its own result.
C20_Witness ==
    /\ records = <<[attested_doc |-> "d1", CIDs |-> <<"x", "y">>], [attested_doc |-> "d2", CIDs |-> <<"x">>]>>
    /\ \A p \in Procs : procs[p].pc = "done" /\ procs[p].op = "filter" /\ procs[p].overlapped
    /\ procs["p1"].threshold = 2
    /\ procs["p1"].response = ConcurrentCollection
    /\ procs["p1"].result.items = <<Doc("d1", "a")>>
    /\ procs["p2"].threshold = 1
    /\ procs["p2"].response = <<Doc("d2", "b")>>
    /\ procs["p2"].result.items = <<Doc("d2", "b")>>

\* ---- keys across restarts

\* the two entries are in the keyring, the identity in the current format
BothStored(entries) ==
    /\ entries.identity.kind = "typed"
    /\ entries.peer.kind = "peer"

RoundTripDone ==
    pc = "done" /\ call.op = "PeersIntoBootstrap" /\ call.roundTrip

\* C22: for every list of bootstrap strings that bootstrapIntoPeers converts
\* without an error, PeersIntoBootstrap applied to the resulting peers
\* reports no error and returns the original list, element for element and
\* in the same order.
C22_BootstrapRoundTrip ==
    RoundTripDone => outcome.err = <<>> /\ outcome.items = call.original

\* ---- queries and their wrapping

WrapDone == pc = "done" /\ call.op \in {"QuerySingle", "QueryArray"} /\ "shape" \in DOMAIN call

\* the text is a `query { ... }` operation around other text
IsWrapped(text) ==
    /\ HasPrefix(text, <<"q", "u", "e", "r", "y", " ", "{", " ">>)
    /\ Len(text) >= 10
    /\ SubSeq(text, Len(text) - 1, Len(text)) = <<" ", "}">>

\* C23: wrapQueryIfNeeded, as QuerySingle and QueryArray apply it, returns
\* unchanged every query whose text, after leading white space, begins with
\* the operation keyword query, mutation or subscription in any letter case,
\* and wraps every other query as a `query { ... }` operation.
C23_OperationsPassOthersAreWrapped ==
    WrapDone
    => IF call.shape.keyword # <<>>
       THEN outcome.items[1] = call.query
       ELSE outcome.items[1] # call.query /\ IsWrapped(outcome.items[1])

\* ---- the limits of the adaptive search

AdaptiveCall ==
    pc \in {"searching", "done"} /\ call.op = "search" /\ ~isFixedLimit(call.query)

\* C24: in the adaptive state exhaustion is declared only on an attempt whose
\* document query returned strictly fewer rows than the limit it asked for;
\* an attempt that returned exactly the rows asked for, none qualifying, is
\* followed by a further attempt with a strictly larger limit: the limits
\* requested are strictly increasing.
C24_ExhaustionOnlyOnShortPage ==
    AdaptiveCall
    => /\ \A i \in 1..(Len(attempts) - 1) :
             /\ attempts[i].returned = attempts[i].limit
             /\ attempts[i + 1].limit > attempts[i].limit
       /\ (pc = "searching" /\ attempts # <<>>)
          => /\ attempts[Len(attempts)].returned = attempts[Len(attempts)].limit
             /\ limit > attempts[Len(attempts)].limit
       /\ (pc = "done" /\ outcome.err # <<>> /\ outcome.err[1] = NoQualifyingResult)
          => /\ outcome.err = ErrEntireCollection
             /\ attempts[Len(attempts)].returned < attempts[Len(attempts)].limit

\* C24 witness: two documents, none qualifying at threshold 1: the attempts
\* with the limits 1 and 2 return full pages and are followed by larger
\* ones, the attempt with the limit 4 returns two rows and ends the search.
C24_Witness ==
    /\ AdaptiveCall
    /\ pc = "done"
    /\ call.threshold = 1
    /\ Len(collection) = 2
    /\ [i \in DOMAIN attempts |-> <<attempts[i].limit, attempts[i].returned>>]
          = <<<<1, 1>>, <<2, 2>>, <<4, 2>>>>
    /\ outcome.err = ErrEntireCollection

\* ---- the order of the filter's steps

LacksDocID(response) == \E i \in DOMAIN response : "DocID" \notin DOMAIN response[i]

StepsUpToIds == <<"getDocID">>
StepsUpToView == <<"getDocID", "extractCollectionNameFromQuery">>
StepsUpToQuery == <<"getDocID", "extractCollectionNameFromQuery", "QueryArray">>

\* C25: one invocation of filterMinimumIndexerAttestations takes its steps in
\* a fixed order and issues at most one store query: the threshold-0 check,
\* then the DocID of every input document (a document without one fails the
\* call before the query text is parsed), then the view name, and only then
\* the single attestation query; a failure before that query issues no store
\* query, and the query is never repeated.
C25_StepsInOrderOneQuery ==
    FilterDone
    => LET s == outcome.steps
           t == call.threshold
           viewErr == viewNameOf(call.query).err # <<>>
       IN /\ Count(s, "QueryArray") <= 1
          /\ s \in {<<>>, StepsUpToIds, StepsUpToView, StepsUpToQuery}
          /\ t = 0 => s = <<>> /\ outcome.err = <<>> /\ outcome.items = call.response
          /\ (t >= 1 /\ LacksDocID(call.response))
             => s = StepsUpToIds /\ outcome.err # <<>> /\ outcome.err[1] = "error retrieving DocID"
          /\ (t >= 1 /\ ~LacksDocID(call.response) /\ viewErr)
             => /\ s = StepsUpToView
                /\ outcome.err # <<>>
                /\ outcome.err[1] = "error extracting view name from query"
          /\ (t >= 1 /\ ~LacksDocID(call.response) /\ ~viewErr) => s = StepsUpToQuery

\* C25 witness: a response whose second value has no DocID field and a query
\* text that does not parse, threshold 1: the call fails on the DocID, the
\* text is not parsed and no query is sent.
C25_Witness ==
    /\ FilterDone
    /\ call.threshold = 1
    /\ call.response = <<Doc("d1", "a"), NoIdDoc>>
    /\ call.query = QueryInvalid
    /\ outcome.steps = StepsUpToIds
    /\ outcome.err = <<"error retrieving DocID", "struct does not have a DocID field">>

\* ---- one input, several thresholds

\* this call and the call before had the same response, query and store,
\* and the store answered both
Compared ==
    /\ FilterDone
    /\ previous.call.op = "filter"
    /\ previous.call.response = call.response
    /\ previous.call.query = call.query
    /\ previous.store = records
    /\ ~StoreFailed(outcome)
    /\ ~StoreFailed(previous.outcome)

\* C26: for a fixed input list, query and store content and thresholds
\* 1 <= t1 <= t2, every document the filter returns with t2 it returns with
\* t1, and the result with threshold 0 contains every result with a positive
\* threshold: of two calls, the one with the smaller threshold (0 included)
\* returns every document the other returns.
C26_ThresholdMonotone ==
    Compared
    => LET t == call.threshold
           u == previous.call.threshold
       IN /\ u <= t => Range(outcome.items) \subseteq Range(previous.outcome.items)
          /\ t <= u => Range(previous.outcome.items) \subseteq Range(outcome.items)

\* C26 witness: d1 has three distinct CIDs and d2 two; threshold 2 returned
\* both, threshold 3 returns d1 alone.
C26_Witness ==
    /\ Compared
    /\ call.response = <<Doc("d1", "a"), Doc("d2", "b")>>
    /\ previous.call.threshold = 2
    /\ Range(previous.outcome.items) = {Doc("d1", "a"), Doc("d2", "b")}
    /\ call.threshold = 3
    /\ outcome.items = <<Doc("d1", "a")>>

\* ---- the rows of the answer

\* C27: every document filterMinimumIndexerAttestations returns is an element
\* of the input list, whatever rows the attestation query returns, rows
\* whose attested_doc is not the id of an input document included: no
\* zero-valued or foreign document is placed in the result.
C27_ResultWithinInput ==
    FilterDone => \A i \in DOMAIN outcome.items : outcome.items[i] \in Range(call.response)

\* ---- documents with the same DocID

\* the input elements whose count of distinct CIDs meets the threshold
QualifyingElements(stored, response, t) ==
    {i \in DOMAIN response : AttestationCount(stored, response[i].DocID) >= t}

\* C28: when the input list holds several documents with the same DocID and
\* the threshold is >= 1, the filter returns every input document whose
\* count meets the threshold: each qualifying input element is in the result
\* as many times as in the input, and the result is as long as the number of
\* qualifying input elements.
C28_DuplicateIdsAreAllReturned ==
    (/\ FilterDone
     /\ call.threshold >= 1
     /\ ~DistinctDocIDs(call.response)
     /\ outcome.err = <<>>)
    => /\ Len(outcome.items) = Cardinality(QualifyingElements(records, call.response, call.threshold))
       /\ \A i \in QualifyingElements(records, call.response, call.threshold) :
             Count(outcome.items, call.response[i]) = Count(call.response, call.response[i])


\* ---- a node that failed to start
StartReturned == node.pc = "returned"

\* C29: when StartDefraInstance returns an error after the node was started,
\* the node is closed by the time the call returns
C29_FailedStartLeavesNoNodeRunning ==
    (StartReturned /\ node.err # <<>>) => node.state # "running"

\* ---- the bootstrap peers of a starting node
\* the configured bootstrap strings that are well-formed, in their order
WellFormedConfigured == SelectSeq(node.bootstrap, LAMBDA s : s \in StartWellFormed)

PeersHandled == node.pc \notin {"idle", "peers"} /\ "connectToPeers" \in Range(node.steps)

AbortedAtPeers == node.err = <<"failed to connect to any peers">>

\* C30: the handling of the bootstrap peers ends the startup exactly when
\* there is a well-formed peer and the connection to every well-formed peer
\* failed; a malformed string is skipped with a logged error, a failure of
\* only some connections is logged, and in every case but the abort the
\* startup goes on to the application of the schema
C30_AbortsOnlyWhenEveryPeerFails ==
    PeersHandled =>
        /\ Len(node.peers) = Len(WellFormedConfigured)
        /\ Len(SelectSeq(node.logged, LAMBDA m : m = "Error translating bootstrapped peers"))
              = Len(node.bootstrap) - Len(WellFormedConfigured)
        /\ AbortedAtPeers <=>
              /\ Len(WellFormedConfigured) >= 1
              /\ \A i \in DOMAIN node.connected : ~node.connected[i]
        /\ AbortedAtPeers =>
              /\ StartReturned
              /\ ~node.returned
              /\ "ApplySchema" \notin Range(node.steps)
        /\ ~AbortedAtPeers => node.pc = "schema" \/ "ApplySchema" \in Range(node.steps)
        /\ ((\E i \in DOMAIN node.connected : ~node.connected[i]) /\ ~AbortedAtPeers)
              => "Failed to connect to peers" \in Range(node.logged)

\* C30 witness: of two well-formed peers one was reached and one was not, and
\* the schema was applied
C30_Witness ==
    /\ PeersHandled
    /\ Len(WellFormedConfigured) = 2
    /\ node.connected = <<TRUE, FALSE>>
    /\ "ApplySchema" \in Range(node.steps)

====
